---- MODULE Spec2Model ----
(***************************************************************************)
(* Model of the geohashing API: GeohashingService (validators, conversion  *)
(* and region enumeration over the h3-js indexing library) and the Express *)
(* route handlers that parse requests, validate them and call the service. *)
(*                                                                         *)
(* JavaScript numbers are records [kind, t]: kind is "nan", "fin", "pinf"  *)
(* or "ninf"; a finite number carries its value in tenths (t = 905 is      *)
(* 90.5), which is the precision of every input the model draws.  Request  *)
(* parameters are texts: sequences of one-character strings.               *)
(***************************************************************************)
EXTENDS Integers, Sequences, FiniteSets, TLC

VARIABLES op, args, status, body, calls, thrown, sent, apiKeys, resolutionInfo

vars == <<op, args, status, body, calls, thrown, sent, apiKeys, resolutionInfo>>

-----------------------------------------------------------------------------
(* JavaScript numbers *)

NaN == [kind |-> "nan", t |-> 0]
PosInf == [kind |-> "pinf", t |-> 0]
NegInf == [kind |-> "ninf", t |-> 0]
Fin(t) == [kind |-> "fin", t |-> t]
\* the number n, n an integer
Num(n) == Fin(n * 10)

IsNaN(x) == x.kind = "nan"

\* a < b as JavaScript evaluates it: false as soon as one side is NaN
Lt(a, b) ==
    /\ ~IsNaN(a)
    /\ ~IsNaN(b)
    /\ \/ a.kind = "ninf" /\ b.kind # "ninf"
       \/ a.kind # "pinf" /\ b.kind = "pinf"
       \/ a.kind = "fin" /\ b.kind = "fin" /\ a.t < b.t

Gt(a, b) == Lt(b, a)

\* Number.isInteger
IsInteger(x) == x.kind = "fin" /\ x.t % 10 = 0

\* Math.ceil
MathCeil(x) == IF x.kind = "fin" THEN Fin((-((-x.t) \div 10)) * 10) ELSE x

\* Math.max and Math.min: NaN as soon as one argument is NaN
MathMax(a, b) == IF IsNaN(a) \/ IsNaN(b) THEN NaN ELSE IF Lt(a, b) THEN b ELSE a

MathMin(a, b) == IF IsNaN(a) \/ IsNaN(b) THEN NaN ELSE IF Lt(b, a) THEN b ELSE a

\* Math.ceil(x / d) for a positive integer d: the ceiling of the exact quotient
CeilQuot(x, d) == IF x.kind = "fin" THEN Fin((-((-x.t) \div (10 * d))) * 10) ELSE x

\* the integer part of a number, toward zero
Trunc(x) ==
    IF x.kind # "fin" THEN NaN
    ELSE IF x.t >= 0 THEN Fin((x.t \div 10) * 10)
    ELSE Fin((-((-x.t) \div 10)) * 10)

-----------------------------------------------------------------------------
(* Texts and their parsing *)

Digits == {"0", "1", "2", "3", "4", "5", "6", "7", "8", "9"}

DigitVal(c) ==
    CASE c = "0" -> 0 [] c = "1" -> 1 [] c = "2" -> 2 [] c = "3" -> 3
      [] c = "4" -> 4 [] c = "5" -> 5 [] c = "6" -> 6 [] c = "7" -> 7
      [] c = "8" -> 8 [] c = "9" -> 9

RECURSIVE SkipSpaces(_)
SkipSpaces(s) ==
    IF s # <<>> /\ Head(s) = " " THEN SkipSpaces(Tail(s)) ELSE s

\* the number of digit characters s starts with
RECURSIVE DigitRun(_)
DigitRun(s) ==
    IF s # <<>> /\ Head(s) \in Digits THEN 1 + DigitRun(Tail(s)) ELSE 0

\* the value of the first n characters of s, all digits, read in base ten
RECURSIVE DigitsValue(_, _)
DigitsValue(s, n) ==
    IF n = 0 THEN 0 ELSE DigitsValue(s, n - 1) * 10 + DigitVal(s[n])

Drop(s, n) == SubSeq(s, n + 1, Len(s))

HasSign(s) == s # <<>> /\ Head(s) \in {"-", "+"}

SignOf(s) == IF s # <<>> /\ Head(s) = "-" THEN -1 ELSE 1

InfinityText == <<"I", "n", "f", "i", "n", "i", "t", "y">>

StartsWith(s, p) == Len(s) >= Len(p) /\ SubSeq(s, 1, Len(p)) = p

\* parseInt(text) with no radix: leading blanks, a sign, then the longest run of
\* digits; whatever follows is ignored; NaN when there is no digit.  (No text of
\* the model starts with 0x, the one case read in base sixteen.)
ParseInt(text) ==
    LET s == SkipSpaces(text)
        r == IF HasSign(s) THEN Tail(s) ELSE s
        n == DigitRun(r)
    IN  IF n = 0 THEN NaN ELSE Num(SignOf(s) * DigitsValue(r, n))

\* parseFloat(text): leading blanks, a sign, then Infinity or digits with an
\* optional fraction; whatever follows is ignored; NaN when there is no digit.
\* (The texts of the model carry at most one fractional digit and no exponent.)
ParseFloat(text) ==
    LET s == SkipSpaces(text)
        r == IF HasSign(s) THEN Tail(s) ELSE s
        n == DigitRun(r)
        afterInt == Drop(r, n)
        hasDot == afterInt # <<>> /\ Head(afterInt) = "."
        frac == IF hasDot THEN Tail(afterInt) ELSE <<>>
        m == DigitRun(frac)
        tenths == IF m = 0 THEN 0 ELSE DigitVal(frac[1])
    IN  IF StartsWith(r, InfinityText)
        THEN (IF SignOf(s) = -1 THEN NegInf ELSE PosInf)
        ELSE IF n + m = 0 THEN NaN
        ELSE Fin(SignOf(s) * (DigitsValue(r, n) * 10 + tenths))

\* a query parameter: absent (undefined) or a text
Absent == [present |-> FALSE, text |-> <<>>]
Given(text) == [present |-> TRUE, text |-> text]

\* !param for a query parameter: undefined and the empty text are falsy
Falsy(p) == ~p.present \/ p.text = <<>>

\* text.split(sep): the pieces between the separators, in order
RECURSIVE SplitOn(_, _)
SplitOn(text, sep) ==
    IF \A i \in 1..Len(text) : text[i] # sep THEN <<text>>
    ELSE LET i == CHOOSE j \in 1..Len(text) :
                      text[j] = sep /\ \A m \in 1..(j - 1) : text[m] # sep
         IN  <<SubSeq(text, 1, i - 1)>> \o SplitOn(Drop(text, i), sep)

\* text.trim(): without its leading and trailing blanks
RECURSIVE Trim(_)
Trim(text) ==
    IF text = <<>> THEN text
    ELSE IF Head(text) = " " THEN Trim(Tail(text))
    ELSE IF text[Len(text)] = " " THEN Trim(SubSeq(text, 1, Len(text) - 1))
    ELSE text

\* parseEnvList(value): the non-blank entries of a comma-separated list, trimmed
parseEnvList(value) ==
    IF Falsy(value) THEN <<>>
    ELSE LET pieces == SplitOn(value.text, ",")
             trimmed == [i \in 1..Len(pieces) |-> Trim(pieces[i])]
         IN  SelectSeq(trimmed, LAMBDA v : Len(v) > 0)

-----------------------------------------------------------------------------
(* Program constants *)

MinLat == -90
MaxLat == 90
MinLng == -180
MaxLng == 180
MinResolution == 0
MaxResolution == 15
MinK == 1
MaxK == 10
MetersPerRing == 1000
MaxRingK == 10

-----------------------------------------------------------------------------
(* GeohashingService: validation *)

Valid == [isValid |-> TRUE, error |-> ""]
Invalid(msg) == [isValid |-> FALSE, error |-> msg]

CoordinatesMessage == "Latitude must be between -90 and 90, longitude between -180 and 180"
ResolutionMessage == "Resolution must be an integer between 0 and 15"
HashMessage == "The provided hash is not a valid H3 cell"
KMessage == "k must be an integer between 1 and 10"
PolygonShapeMessage == "Polygon must be an array of at least 3 [lat, lng] coordinates"
PolygonVertexMessage == "Each polygon coordinate must be a [lat, lng] array"

\* a variant of the range test that also rejects the four bounds themselves
CoordinatesOutOfRangeStrict(lat, lng) ==
    \/ ~Lt(Num(MinLat), lat)
    \/ ~Gt(Num(MaxLat), lat)
    \/ ~Lt(Num(MinLng), lng)
    \/ ~Gt(Num(MaxLng), lng)

\* lat < -90 || lat > 90 || lng < -180 || lng > 180
CoordinatesOutOfRange(lat, lng) ==
    \/ Lt(lat, Num(MinLat))
    \/ Gt(lat, Num(MaxLat))
    \/ Lt(lng, Num(MinLng))
    \/ Gt(lng, Num(MaxLng))

validateCoordinates(lat, lng) ==
    IF CoordinatesOutOfRange(lat, lng) THEN Invalid(CoordinatesMessage) ELSE Valid

\* a variant of the resolution test without !Number.isInteger(resolution)
ResolutionRejectedNoIntegerTest(resolution) ==
    \/ Lt(resolution, Num(MinResolution))
    \/ Gt(resolution, Num(MaxResolution))

\* resolution < 0 || resolution > 15 || !Number.isInteger(resolution)
ResolutionRejected(resolution) ==
    \/ Lt(resolution, Num(MinResolution))
    \/ Gt(resolution, Num(MaxResolution))
    \/ ~IsInteger(resolution)

validateResolution(resolution) ==
    IF ResolutionRejected(resolution) THEN Invalid(ResolutionMessage) ELSE Valid

validateKValue(k) ==
    IF Lt(k, Num(MinK)) \/ Gt(k, Num(MaxK)) \/ ~IsInteger(k)
    THEN Invalid(KMessage)
    ELSE Valid

-----------------------------------------------------------------------------
(* The indexing library (h3-js), as the service uses it.  A cell hash is    *)
(* modelled by what it encodes: a base cell and one digit per resolution    *)
(* level.  The grid geometry is a small stand-in: the service only passes   *)
(* the library's answers on.                                                *)

Hash(base, digits) == [base |-> base, digits |-> digits]

isValidCell(h) ==
    /\ h.base \in 0..121
    /\ Len(h.digits) <= 15
    /\ \A i \in 1..Len(h.digits) : h.digits[i] \in 0..6

getResolution(h) == Len(h.digits) % 16

RECURSIVE SumSeq(_)
SumSeq(s) == IF s = <<>> THEN 0 ELSE Head(s) + SumSeq(Tail(s))

Abs(n) == IF n < 0 THEN -n ELSE n

\* the canonical center of a cell, <<lat, lng>>
cellToLatLng(h) ==
    <<Fin(((h.base % 17) - 8) * 100 + SumSeq(h.digits)),
      Fin(((h.base % 35) - 17) * 100 + Len(h.digits))>>

\* the vertex ring of a cell: six vertices, five for a pentagon (base cell 4 here)
cellToBoundary(h) ==
    LET c == cellToLatLng(h)
        n == IF h.base = 4 THEN 5 ELSE 6
    IN  [i \in 1..n |-> <<Fin(c[1].t + (i % 3) - 1), Fin(c[2].t + (i % 2))>>]

\* the ring argument as the library reads it: an integer, NaN read as 0
RingArg(k) == IF k.kind = "fin" THEN Trunc(k).t \div 10 ELSE IF k.kind = "pinf" THEN 7 ELSE 0

\* the cell d steps from h around its ring of siblings (of base cells at resolution 0)
Step(h, d) ==
    IF h.digits = <<>>
    THEN Hash((h.base + d) % 122, <<>>)
    ELSE Hash(h.base,
              [h.digits EXCEPT ![Len(h.digits)] = (h.digits[Len(h.digits)] + d) % 7])

\* all cells within k steps of h, h first
gridDisk(h, k) ==
    LET kk == RingArg(k)
        full == IF h.digits = <<>> THEN 61 ELSE 3
        reach == IF kk < 0 THEN 0 ELSE IF kk > full THEN full ELSE kk
    IN  [i \in 1..(2 * reach + 1) |->
            IF i = 1 THEN h
            ELSE IF i % 2 = 0 THEN Step(h, i \div 2)
            ELSE Step(h, -(i \div 2))]

cellToParent(h, r) ==
    Hash(h.base, SubSeq(h.digits, 1, IF r < Len(h.digits) THEN r ELSE Len(h.digits)))

\* the children of h at resolution r; the service asks for r = resolution + 1 only
cellToChildren(h, r) ==
    IF r = Len(h.digits) + 1
    THEN [d \in 1..7 |-> Hash(h.base, Append(h.digits, d - 1))]
    ELSE IF r = Len(h.digits) THEN <<h>> ELSE <<>>

\* the resolution argument as the library reads it
ResArg(res) == IF IsInteger(res) /\ res.t >= 0 /\ res.t <= 150 THEN res.t \div 10 ELSE 0

latLngToCell(lat, lng, res) ==
    Hash((IF Lt(lat, Num(0)) THEN 1 ELSE 0) + (IF Lt(lng, Num(0)) THEN 2 ELSE 0),
         [i \in 1..ResArg(res) |-> (Abs(lat.t) + i * Abs(lng.t)) % 7])

\* s without the elements that occurred earlier in it
RECURSIVE Dedup(_)
Dedup(s) ==
    IF s = <<>> THEN <<>>
    ELSE LET front == Dedup(SubSeq(s, 1, Len(s) - 1))
             last == s[Len(s)]
         IN  IF \E i \in 1..Len(front) : front[i] = last THEN front ELSE Append(front, last)

\* the cells covering a polygon: here the cells of its vertices, in vertex order
polygonToCells(polygon, res) ==
    Dedup([i \in 1..Len(polygon) |-> latLngToCell(polygon[i][1], polygon[i][2], res)])

-----------------------------------------------------------------------------
(* Calls into the library, and how a service method's calls run *)

NoHash == Hash(-1, <<>>)
NoError == ""

LibCall(fn, hash, num, lat, lng, poly) ==
    [fn |-> fn, hash |-> hash, num |-> num, lat |-> lat, lng |-> lng, poly |-> poly]

CallLatLngToCell(lat, lng, res) == LibCall("latLngToCell", NoHash, res, lat, lng, <<>>)
CallCellToLatLng(h) == LibCall("cellToLatLng", h, NaN, NaN, NaN, <<>>)
CallCellToBoundary(h) == LibCall("cellToBoundary", h, NaN, NaN, NaN, <<>>)
CallGetResolution(h) == LibCall("getResolution", h, NaN, NaN, NaN, <<>>)
CallGridDisk(h, k) == LibCall("gridDisk", h, k, NaN, NaN, <<>>)
CallCellToParent(h, r) == LibCall("cellToParent", h, Num(r), NaN, NaN, <<>>)
CallCellToChildren(h, r) == LibCall("cellToChildren", h, Num(r), NaN, NaN, <<>>)
CallPolygonToCells(poly, res) == LibCall("polygonToCells", NoHash, res, NaN, NaN, poly)

\* the calls that read a cell hash
HashCalls ==
    {"cellToLatLng", "cellToBoundary", "getResolution", "gridDisk", "cellToParent",
     "cellToChildren"}

BadResolutionArg(r) == ~IsInteger(r) \/ r.t < 0 \/ r.t > 150

\* the error a strict library raises on a call's arguments, NoError when they are fine
DomainError(c) ==
    CASE c.fn = "latLngToCell" ->
            IF c.lat.kind # "fin" \/ c.lng.kind # "fin"
            THEN "Latitude or longitude arguments were outside of acceptable range"
            ELSE IF BadResolutionArg(c.num)
            THEN "Resolution argument was outside of acceptable range"
            ELSE NoError
      [] c.fn = "polygonToCells" ->
            IF \E i \in 1..Len(c.poly) :
                  \E j \in 1..Len(c.poly[i]) : c.poly[i][j].kind # "fin"
            THEN "Latitude or longitude arguments were outside of acceptable range"
            ELSE IF BadResolutionArg(c.num)
            THEN "Resolution argument was outside of acceptable range"
            ELSE NoError
      [] c.fn = "getResolution" -> NoError
      [] c.fn = "gridDisk" ->
            IF ~isValidCell(c.hash) THEN "Cell argument was not valid"
            ELSE IF RingArg(c.num) < 0 THEN "Argument was outside of acceptable range"
            ELSE NoError
      [] OTHER ->
            IF ~isValidCell(c.hash) THEN "Cell argument was not valid" ELSE NoError

UnexpectedFailure == "The operation failed"

\* Whether call i of a plan throws: the library faults at call faultAt (0: never),
\* and a strict library rejects bad arguments; a lenient one computes on them.
Throws(plan, i, faultAt, lenient) ==
    i = faultAt \/ (~lenient /\ DomainError(plan[i]) # NoError)

ThrowAt(plan, faultAt, lenient) ==
    LET S == {i \in 1..Len(plan) : Throws(plan, i, faultAt, lenient)}
    IN  IF S = {} THEN 0 ELSE CHOOSE i \in S : \A j \in S : i <= j

NoValue == [none |-> TRUE]

\* A service method run: its library calls in order up to the first that throws.
Run(plan, value, faultAt, lenient) ==
    LET i == ThrowAt(plan, faultAt, lenient)
    IN  IF i = 0
        THEN [thrown |-> NoError, value |-> value, log |-> plan]
        ELSE [thrown |-> IF ~lenient /\ DomainError(plan[i]) # NoError
                         THEN DomainError(plan[i])
                         ELSE UnexpectedFailure,
              value |-> NoValue,
              log |-> SubSeq(plan, 1, i)]

-----------------------------------------------------------------------------
(* GeohashingService: conversion and lookup *)

formatCenter(center) == [lat |-> center[1], lng |-> center[2]]

formatBoundary(boundary) == [i \in 1..Len(boundary) |-> formatCenter(boundary[i])]

formatNeighborInfo(h) == [hash |-> h, center |-> formatCenter(cellToLatLng(h))]

\* a variant of the mapping that loses the first cell
MapNeighborInfoSkipFirst(zones) ==
    [i \in 1..(Len(zones) - 1) |-> formatNeighborInfo(zones[i + 1])]

\* zones.map(hash => this.formatNeighborInfo(hash)): the entries and the calls made
MapNeighborInfo(zones) == [i \in 1..Len(zones) |-> formatNeighborInfo(zones[i])]
MapNeighborCalls(zones) == [i \in 1..Len(zones) |-> CallCellToLatLng(zones[i])]

\* a variant that returns the input point as the center
getZoneInputAsCenter(lat, lng, resolution, faultAt, lenient) ==
    LET h == latLngToCell(lat, lng, resolution)
    IN  Run(<<CallLatLngToCell(lat, lng, resolution), CallCellToLatLng(h),
              CallGetResolution(h)>>,
            [hash |-> h,
             input |-> [lat |-> lat, lng |-> lng, resolution |-> resolution],
             center |-> [lat |-> lat, lng |-> lng],
             resolution |-> getResolution(h)],
            faultAt, lenient)

getZone(lat, lng, resolution, faultAt, lenient) ==
    LET h == latLngToCell(lat, lng, resolution)
    IN  Run(<<CallLatLngToCell(lat, lng, resolution), CallCellToLatLng(h),
              CallGetResolution(h)>>,
            [hash |-> h,
             input |-> [lat |-> lat, lng |-> lng, resolution |-> resolution],
             center |-> formatCenter(cellToLatLng(h)),
             resolution |-> getResolution(h)],
            faultAt, lenient)

getZoneCenter(h, faultAt, lenient) ==
    Run(<<CallCellToLatLng(h), CallGetResolution(h)>>,
        [hash |-> h, center |-> formatCenter(cellToLatLng(h)),
         resolution |-> getResolution(h)],
        faultAt, lenient)

getZoneBoundary(h, faultAt, lenient) ==
    Run(<<CallCellToBoundary(h), CallGetResolution(h)>>,
        [hash |-> h, boundary |-> formatBoundary(cellToBoundary(h)),
         resolution |-> getResolution(h)],
        faultAt, lenient)

\* s without its elements equal to x, order kept
RECURSIVE Without(_, _)
Without(s, x) ==
    IF s = <<>> THEN <<>>
    ELSE IF Head(s) = x THEN Without(Tail(s), x)
    ELSE <<Head(s)>> \o Without(Tail(s), x)

\* a variant that leaves the cell itself out of its neighbor list
getNeighborsWithoutSelf(h, k, faultAt, lenient) ==
    LET neighbors == Without(gridDisk(h, k), h)
    IN  Run(<<CallGridDisk(h, k)>> \o MapNeighborCalls(neighbors)
              \o <<CallGetResolution(h)>>,
            [hash |-> h, k |-> k, neighbors |-> MapNeighborInfo(neighbors),
             count |-> Len(neighbors), resolution |-> getResolution(h)],
            faultAt, lenient)

getNeighbors(h, k, faultAt, lenient) ==
    LET neighbors == gridDisk(h, k)
    IN  Run(<<CallGridDisk(h, k)>> \o MapNeighborCalls(neighbors)
              \o <<CallGetResolution(h)>>,
            [hash |-> h, k |-> k, neighbors |-> MapNeighborInfo(neighbors),
             count |-> Len(neighbors), resolution |-> getResolution(h)],
            faultAt, lenient)

\* a variant of the page size that shows fewer children
ChildrenShownFewer == 2 + 3

ChildrenShown == 10

FirstN(s, n) == SubSeq(s, 1, IF Len(s) < n THEN Len(s) ELSE n)

\* a variant that keeps the cell itself among its neighbors
NeighborsOfWithSelf(h) == gridDisk(h, Num(1))

\* gridDisk(hash, 1).filter(h => h !== hash)
NeighborsOf(h) == Without(gridDisk(h, Num(1)), h)

\* if (resolution > 0)
HasParent(resolution) == resolution > 0

\* a variant that asks for children at every resolution
HasChildrenAlways(resolution) == TRUE

\* if (resolution < 15)
HasChildren(resolution) == resolution < MaxResolution

getDetailedZoneInfo(h, faultAt, lenient) ==
    LET resolution == getResolution(h)
        children == IF HasChildren(resolution)
                    THEN cellToChildren(h, resolution + 1)
                    ELSE <<>>
    IN  Run(<<CallCellToLatLng(h), CallCellToBoundary(h), CallGetResolution(h),
              CallGridDisk(h, Num(1))>>
              \o (IF HasParent(resolution)
                  THEN <<CallCellToParent(h, resolution - 1)>>
                  ELSE <<>>)
              \o (IF HasChildren(resolution)
                  THEN <<CallCellToChildren(h, resolution + 1)>>
                  ELSE <<>>),
            [hash |-> h,
             resolution |-> resolution,
             center |-> formatCenter(cellToLatLng(h)),
             boundary |-> formatBoundary(cellToBoundary(h)),
             neighbors |-> NeighborsOf(h),
             parent |-> IF HasParent(resolution)
                        THEN cellToParent(h, resolution - 1)
                        ELSE NoHash,
             children |-> FirstN(children, ChildrenShown),
             childrenCount |-> Len(children)],
            faultAt, lenient)

-----------------------------------------------------------------------------
(* GeohashingService: region enumeration *)

\* a variant that leaves the ring open: the first vertex is not repeated
BoxRingOpen(box) ==
    <<<<box.minLat, box.minLng>>, <<box.minLat, box.maxLng>>, <<box.maxLat, box.maxLng>>,
      <<box.maxLat, box.minLng>>>>

\* the closed five-vertex ring of a bounding box
BoxRing(box) ==
    <<<<box.minLat, box.minLng>>, <<box.minLat, box.maxLng>>, <<box.maxLat, box.maxLng>>,
      <<box.maxLat, box.minLng>>, <<box.minLat, box.minLng>>>>

getZonesInArea(boundingBox, resolution, faultAt, lenient) ==
    LET polygon == BoxRing(boundingBox)
        zones == polygonToCells(polygon, resolution)
    IN  Run(<<CallPolygonToCells(polygon, resolution)>> \o MapNeighborCalls(zones),
            [boundingBox |-> boundingBox, resolution |-> resolution,
             zones |-> MapNeighborInfo(zones), count |-> Len(zones)],
            faultAt, lenient)

\* a variant that reports the estimate after the clamp to 10
EstimateKClamped(radius) ==
    MathMin(MathMax(Num(1), CeilQuot(radius, MetersPerRing)), Num(MaxRingK))

\* const k = Math.max(1, Math.ceil(radius / 1000))
EstimateK(radius) == MathMax(Num(1), CeilQuot(radius, MetersPerRing))

\* a variant that traverses the estimate as it is
RingCountUnclamped(k) == k

\* Math.min(k, 10)
RingCount(k) == MathMin(k, Num(MaxRingK))

RadiusNote ==
    "This is an approximation. For precise radius filtering, calculate actual distances from center."

getZonesInRadius(center, radius, resolution, faultAt, lenient) ==
    LET centerHash == latLngToCell(center.lat, center.lng, resolution)
        k == EstimateK(radius)
        zones == gridDisk(centerHash, RingCount(k))
    IN  Run(<<CallLatLngToCell(center.lat, center.lng, resolution),
              CallGridDisk(centerHash, RingCount(k))>> \o MapNeighborCalls(zones),
            [center |-> center, radius |-> radius, resolution |-> resolution,
             estimatedK |-> k, zones |-> MapNeighborInfo(zones), count |-> Len(zones),
             note |-> RadiusNote],
            faultAt, lenient)

getZonesInPolygon(polygon, resolution, faultAt, lenient) ==
    LET zones == polygonToCells(polygon, resolution)
    IN  Run(<<CallPolygonToCells(polygon, resolution)>> \o MapNeighborCalls(zones),
            [polygon |-> polygon, resolution |-> resolution,
             zones |-> MapNeighborInfo(zones), count |-> Len(zones)],
            faultAt, lenient)

-----------------------------------------------------------------------------
(* GeohashingService: the resolution table *)

ResolutionDescriptor(resolution, edge, area) ==
    [resolution |-> resolution, avgHexagonEdgeLength |-> edge, avgHexagonArea |-> area]

\* private static readonly RESOLUTION_INFO = [...]: the table as the class is loaded
RESOLUTION_INFO ==
    <<ResolutionDescriptor(0, "1107.712591 km", "4250546.848 km2"),
      ResolutionDescriptor(1, "418.676005 km", "607220.9782 km2"),
      ResolutionDescriptor(2, "158.244655 km", "86745.85403 km2"),
      ResolutionDescriptor(3, "59.810857 km", "12392.26486 km2"),
      ResolutionDescriptor(4, "22.606379 km", "1770.323552 km2"),
      ResolutionDescriptor(5, "8.544408 km", "252.9033645 km2"),
      ResolutionDescriptor(6, "3.229482 km", "36.1290521 km2"),
      ResolutionDescriptor(7, "1.220629 km", "5.1612932 km2"),
      ResolutionDescriptor(8, "461.354684 m", "0.7373276 km2"),
      ResolutionDescriptor(9, "174.375668 m", "0.1053325 km2"),
      ResolutionDescriptor(10, "65.907807 m", "15042.5 m2"),
      ResolutionDescriptor(11, "24.910561 m", "2149.1 m2"),
      ResolutionDescriptor(12, "9.415526 m", "307.71 m2"),
      ResolutionDescriptor(13, "3.559893 m", "43.96 m2"),
      ResolutionDescriptor(14, "1.348575 m", "6.28 m2"),
      ResolutionDescriptor(15, "0.509713 m", "0.90 m2")>>

UsageTiers ==
    ("Country level" :> "Resolution 0-2") @@ ("State/Province level" :> "Resolution 3-4")
      @@ ("City level" :> "Resolution 5-7") @@ ("Neighborhood level" :> "Resolution 8-10")
      @@ ("Building level" :> "Resolution 11-13") @@ ("Room level" :> "Resolution 14-15")

\* a variant that returns a fresh sixteen-entry table whatever the static one holds
getResolutionsInfoFresh(table) ==
    [description |-> "H3 resolution levels with approximate sizes",
     resolutions |-> RESOLUTION_INFO,
     usage |-> UsageTiers]

\* getResolutionsInfo(): resolutions is the static array itself, not a copy; table is
\* what that array holds when the method runs
getResolutionsInfo(table) ==
    [description |-> "H3 resolution levels with approximate sizes",
     resolutions |-> table,
     usage |-> UsageTiers]

\* a variant of the method that sorts the static array in place, finest first
TableAfterSortedInPlace(table) == [i \in 1..Len(table) |-> table[Len(table) + 1 - i]]

\* the static array after getResolutionsInfo has run: the method writes nothing
TableAfterGetResolutionsInfo(table) == table

-----------------------------------------------------------------------------
(* GeohashingService: hash and polygon validation *)

CallIsValidCell(h) == LibCall("isValidCell", h, NaN, NaN, NaN, <<>>)

validateCellHash(h) == IF ~isValidCell(h) THEN Invalid(HashMessage) ELSE Valid

\* A JSON value of a request body, as far as the polygon route reads it: type is
\* "undefined", "number", "string" or "array"; a polygon's items are its vertices,
\* each [isArray, items] with numbers as items.
JsonUndefined == [type |-> "undefined", num |-> NaN, text |-> <<>>, items |-> <<>>]
JsonNumber(n) == [type |-> "number", num |-> n, text |-> <<>>, items |-> <<>>]
JsonString(t) == [type |-> "string", num |-> NaN, text |-> t, items |-> <<>>]
JsonArray(items) == [type |-> "array", num |-> NaN, text |-> <<>>, items |-> items]
Vertex(items) == [isArray |-> TRUE, items |-> items]
NotAVertex == [isArray |-> FALSE, items |-> <<>>]

\* the verdict on the vertices from index i on: the first failing one decides
RECURSIVE ValidateVertices(_, _)
ValidateVertices(items, i) ==
    IF i > Len(items) THEN Valid
    ELSE IF ~items[i].isArray \/ Len(items[i].items) # 2 THEN Invalid(PolygonVertexMessage)
    ELSE IF ~validateCoordinates(items[i].items[1], items[i].items[2]).isValid
    THEN validateCoordinates(items[i].items[1], items[i].items[2])
    ELSE ValidateVertices(items, i + 1)

validatePolygon(polygon) ==
    IF polygon.type # "array" \/ Len(polygon.items) < 3
    THEN Invalid(PolygonShapeMessage)
    ELSE ValidateVertices(polygon.items, 1)

-----------------------------------------------------------------------------
(* The route handlers *)

\* a variant that also puts the status code in the body
sendErrorWithCode(statusCode, error, message) ==
    [status |-> statusCode,
     body |-> [error |-> error, message |-> message, statusCode |-> statusCode]]

sendError(statusCode, error, message) ==
    [status |-> statusCode, body |-> [error |-> error, message |-> message]]

\* res.json(result)
sendJson(result) == [status |-> 200, body |-> result]

NoResponse == [status |-> 0, body |-> NoValue]

InternalError == "Internal server error"

\* a variant of the catch block that sends nothing
CatchSwallow(err) == NoResponse

\* catch (error) { sendError(res, 500, 'Internal server error', error.message) }
CatchBlock(err) == sendError(500, InternalError, err)

\* a response written to res, and how many library calls had been made by then
Written(resp, after) == [status |-> resp.status, body |-> resp.body, after |-> after]

Reply(resp, log, err) ==
    [status |-> resp.status, body |-> resp.body, log |-> log, thrown |-> err,
     sent |-> <<Written(resp, Len(log))>>]

\* a validation failure: return sendError(res, 400, ...)
Reject(error, message, log) == Reply(sendError(400, error, message), log, NoError)

\* (process.env.API_KEY_HEADER || 'x-api-key').toLowerCase(), with the variable unset
apiKeyHeaderName == "x-api-key"

\* a variant of the gate that only asks for the header to be there
apiKeyMiddlewareAnyKey(keys, header, reply) ==
    IF Len(keys) = 0 THEN reply
    ELSE IF Falsy(header)
    THEN Reply(sendError(401, "Unauthorized",
                         "Missing API key in header " \o apiKeyHeaderName), <<>>, NoError)
    ELSE reply

\* apiKeyMiddleware, registered in front of every zone, zones and resolutions route:
\* reply is what the route's handler answers when next() hands the request on
apiKeyMiddleware(keys, header, reply) ==
    IF Len(keys) = 0 THEN reply
    ELSE IF Falsy(header)
    THEN Reply(sendError(401, "Unauthorized",
                         "Missing API key in header " \o apiKeyHeaderName), <<>>, NoError)
    ELSE IF \A i \in 1..Len(keys) : keys[i] # header.text
    THEN Reply(sendError(403, "Forbidden", "Invalid API key"), <<>>, NoError)
    ELSE reply

\* the error-handling middleware: what Express hands an error raised before a route
ErrorMiddleware(err) ==
    Reply(sendError(500, InternalError, "Something went wrong!"), <<>>, err)

\* the last middleware: no route matched
NotFoundHandler ==
    Reply(sendError(404, "Not found", "The requested endpoint does not exist"),
          <<>>, NoError)

\* app.get('/resolutions', ...); table is what RESOLUTION_INFO holds
ResolutionsHandler(table) == Reply(sendJson(getResolutionsInfo(table)), <<>>, NoError)

\* a variant in which the catch block also runs after res.json(result)
AnswerThenError(out, pre) ==
    IF out.thrown # NoError
    THEN Reply(CatchBlock(out.thrown), pre \o out.log, out.thrown)
    ELSE [status |-> 200, body |-> out.value, log |-> pre \o out.log, thrown |-> NoError,
          sent |-> <<Written(sendJson(out.value), Len(pre \o out.log)),
                     Written(CatchBlock(UnexpectedFailure), Len(pre \o out.log))>>]

\* const result = GeohashingService.xxx(...); res.json(result), inside try/catch;
\* pre is the log of the calls validation made
Answer(out, pre) ==
    IF out.thrown # NoError
    THEN Reply(CatchBlock(out.thrown), pre \o out.log, out.thrown)
    ELSE Reply(sendJson(out.value), pre \o out.log, NoError)

\* GET /zone/:lat/:lng/:resolution
ZoneHandler(latText, lngText, resText, faultAt, lenient) ==
    LET lat == ParseFloat(latText)
        lng == ParseFloat(lngText)
        resolution == ParseInt(resText)
        coordValidation == validateCoordinates(lat, lng)
        resolutionValidation == validateResolution(resolution)
    IN  IF ~coordValidation.isValid
        THEN Reject("Invalid coordinates", coordValidation.error, <<>>)
        ELSE IF ~resolutionValidation.isValid
        THEN Reject("Invalid resolution", resolutionValidation.error, <<>>)
        ELSE Answer(getZone(lat, lng, resolution, faultAt, lenient), <<>>)

\* a variant of the hash routes that lets every hash through
HashCheckSkipped(h) == Valid

\* const hashValidation = GeohashingService.validateCellHash(hash)
HashCheck(h) == validateCellHash(h)

\* GET /zone/:hash/center
CenterHandler(h, faultAt, lenient) ==
    IF ~HashCheck(h).isValid
    THEN Reject("Invalid H3 hash", HashCheck(h).error, <<CallIsValidCell(h)>>)
    ELSE Answer(getZoneCenter(h, faultAt, lenient), <<CallIsValidCell(h)>>)

\* GET /zone/:hash/boundary
BoundaryHandler(h, faultAt, lenient) ==
    IF ~HashCheck(h).isValid
    THEN Reject("Invalid H3 hash", HashCheck(h).error, <<CallIsValidCell(h)>>)
    ELSE Answer(getZoneBoundary(h, faultAt, lenient), <<CallIsValidCell(h)>>)

\* parseInt(req.query.k as string): an absent parameter reads as "undefined"
ParseIntParam(p) == IF p.present THEN ParseInt(p.text) ELSE NaN

ParseFloatParam(p) == IF p.present THEN ParseFloat(p.text) ELSE NaN

\* x || 1: NaN and 0 are falsy
OrOne(x) == IF IsNaN(x) \/ (x.kind = "fin" /\ x.t = 0) THEN Num(1) ELSE x

\* GET /zone/:hash/neighbors
NeighborsHandler(h, kParam, faultAt, lenient) ==
    LET k == OrOne(ParseIntParam(kParam))
        kValidation == validateKValue(k)
    IN  IF ~HashCheck(h).isValid
        THEN Reject("Invalid H3 hash", HashCheck(h).error, <<CallIsValidCell(h)>>)
        ELSE IF ~kValidation.isValid
        THEN Reject("Invalid k value", kValidation.error, <<CallIsValidCell(h)>>)
        ELSE Answer(getNeighbors(h, k, faultAt, lenient), <<CallIsValidCell(h)>>)

\* GET /zone/:hash/info
InfoHandler(h, faultAt, lenient) ==
    IF ~HashCheck(h).isValid
    THEN Reject("Invalid H3 hash", HashCheck(h).error, <<CallIsValidCell(h)>>)
    ELSE Answer(getDetailedZoneInfo(h, faultAt, lenient), <<CallIsValidCell(h)>>)

\* GET /zones/area
AreaHandler(qMinLat, qMinLng, qMaxLat, qMaxLng, qResolution, faultAt, lenient) ==
    LET minLatNum == ParseFloatParam(qMinLat)
        minLngNum == ParseFloatParam(qMinLng)
        maxLatNum == ParseFloatParam(qMaxLat)
        maxLngNum == ParseFloatParam(qMaxLng)
        resolutionNum == ParseIntParam(qResolution)
        minCoordValidation == validateCoordinates(minLatNum, minLngNum)
        maxCoordValidation == validateCoordinates(maxLatNum, maxLngNum)
        resolutionValidation == validateResolution(resolutionNum)
        boundingBox == [minLat |-> minLatNum, minLng |-> minLngNum,
                        maxLat |-> maxLatNum, maxLng |-> maxLngNum]
    IN  IF Falsy(qMinLat) \/ Falsy(qMinLng) \/ Falsy(qMaxLat) \/ Falsy(qMaxLng)
           \/ Falsy(qResolution)
        THEN Reject("Missing parameters",
                    "Required: minLat, minLng, maxLat, maxLng, resolution", <<>>)
        ELSE IF ~minCoordValidation.isValid \/ ~maxCoordValidation.isValid
        THEN Reject("Invalid coordinates",
                    "All coordinates must be valid lat/lng values", <<>>)
        ELSE IF ~resolutionValidation.isValid
        THEN Reject("Invalid resolution", resolutionValidation.error, <<>>)
        ELSE Answer(getZonesInArea(boundingBox, resolutionNum, faultAt, lenient), <<>>)

\* GET /zones/radius
RadiusHandler(lat, lng, radius, resolution, faultAt, lenient) ==
    LET latNum == ParseFloatParam(lat)
        lngNum == ParseFloatParam(lng)
        radiusNum == ParseFloatParam(radius)
        resolutionNum == ParseIntParam(resolution)
        coordValidation == validateCoordinates(latNum, lngNum)
        resolutionValidation == validateResolution(resolutionNum)
        center == [lat |-> latNum, lng |-> lngNum]
    IN  IF Falsy(lat) \/ Falsy(lng) \/ Falsy(radius) \/ Falsy(resolution)
        THEN Reject("Missing parameters",
                    "Required: lat, lng, radius (in meters), resolution", <<>>)
        ELSE IF ~coordValidation.isValid
        THEN Reject("Invalid coordinates", coordValidation.error, <<>>)
        ELSE IF ~resolutionValidation.isValid
        THEN Reject("Invalid resolution", resolutionValidation.error, <<>>)
        ELSE Answer(getZonesInRadius(center, radiusNum, resolutionNum, faultAt, lenient),
                    <<>>)

\* !value for a JSON value: undefined, 0, NaN and the empty string are falsy
JsonFalsy(v) ==
    \/ v.type = "undefined"
    \/ v.type = "number" /\ (IsNaN(v.num) \/ (v.num.kind = "fin" /\ v.num.t = 0))
    \/ v.type = "string" /\ v.text = <<>>

\* parseInt(value): the value is turned into text first; a number's text is its
\* decimal notation, of which parseInt reads the integer part
ParseIntJson(v) ==
    CASE v.type = "number" -> Trunc(v.num)
      [] v.type = "string" -> ParseInt(v.text)
      [] OTHER -> NaN

\* the vertices of a validated polygon as the library receives them
VertexPairs(polygon) ==
    [i \in 1..Len(polygon.items) |-> polygon.items[i].items]

\* POST /zones/polygon
PolygonHandler(polygon, resolution, faultAt, lenient) ==
    LET resolutionNum == ParseIntJson(resolution)
        resolutionValidation == validateResolution(resolutionNum)
        polygonValidation == validatePolygon(polygon)
    IN  IF JsonFalsy(polygon) \/ JsonFalsy(resolution)
        THEN Reject("Missing parameters",
                    "Required: polygon (array of [lat, lng] coordinates), resolution",
                    <<>>)
        ELSE IF ~resolutionValidation.isValid
        THEN Reject("Invalid resolution", resolutionValidation.error, <<>>)
        ELSE IF ~polygonValidation.isValid
        THEN Reject("Invalid polygon", polygonValidation.error, <<>>)
        ELSE Answer(getZonesInPolygon(VertexPairs(polygon), resolutionNum, faultAt,
                                      lenient), <<>>)

-----------------------------------------------------------------------------
(* The inputs the model draws *)

\* the latest call position at which the library may fault unexpectedly
MaxFaultAt == 3
\* the longest polygon a request body carries
MaxVertices == 4
\* the largest radius of a direct call, in kilometres
MaxRadiusKm == 12

FaultChoices == 0..MaxFaultAt

Key1 == <<"k", "1">>
Key2 == <<"k", "2">>

\* values of the API_KEYS environment variable
ApiKeysEnv ==
    {Absent, Given(<<>>), Given(<<" ", ",", " ", ",">>), Given(Key1),
     Given(<<" ">> \o Key1 \o <<" ", ",", ",">> \o Key2)}

\* values of the key header of a request
HeaderChoices == {Absent, Given(<<>>), Given(Key1), Given(Key2), Given(<<"k", "9">>)}

\* the gate reads the header only when keys are configured
RequestHeaders(keys) == IF Len(keys) = 0 THEN {Absent} ELSE HeaderChoices

UnknownPaths == {"/zone", "/zones", "/resolution/7"}

EarlyErrors == {"Unexpected token in JSON", "Not allowed by CORS"}

LatTexts ==
    {<<"0">>, <<"9", "0">>, <<"9", "0", ".", "1">>, <<"-", "9", "0">>, <<"-", "9", "1">>,
     <<"a", "b", "c">>}

LngTexts ==
    {<<"0">>, <<"1", "8", "0">>, <<"-", "1", "8", "0">>, <<"1", "8", "0", ".", "1">>,
     <<"x">>}

ResTexts ==
    {<<"0">>, <<"1", "5">>, <<"1", "6">>, <<"-", "1">>, <<"7", ".", "5">>,
     <<"9", "a", "b", "c">>, <<"a", "b", "c">>}

\* valid cells at resolutions 0 (a pentagon), 1, 9 and 15, and three hashes that
\* isValidCell rejects: a base cell out of range, a digit 7, sixteen digits
ValidHashes ==
    {Hash(4, <<>>), Hash(10, <<3>>), Hash(7, <<1, 2, 3, 4, 5, 6, 0, 1, 2>>),
     Hash(20, <<0, 1, 2, 3, 4, 5, 6, 0, 1, 2, 3, 4, 5, 6, 0>>)}

InvalidHashes ==
    {Hash(122, <<>>), Hash(3, <<7>>),
     Hash(20, <<0, 1, 2, 3, 4, 5, 6, 0, 1, 2, 3, 4, 5, 6, 0, 1>>)}

HashInputs == ValidHashes \cup InvalidHashes

KParams ==
    {Absent, Given(<<>>), Given(<<"0">>), Given(<<"1">>), Given(<<"3">>),
     Given(<<"1", "0">>), Given(<<"1", "1">>), Given(<<"-", "2">>),
     Given(<<"2", ".", "5">>), Given(<<"a">>)}

BoxLatParams == {Absent, Given(<<"1", "0">>), Given(<<"-", "5">>), Given(<<"-", "9", "1">>),
                 Given(<<"a">>)}
BoxLngParams == {Given(<<>>), Given(<<"2", "0">>), Given(<<"-", "2", "0">>),
                 Given(<<"1", "8", "1">>)}
ResParams == {Absent, Given(<<"0">>), Given(<<"2">>), Given(<<"1", "6">>),
              Given(<<"7", ".", "5">>)}

RadiusParams ==
    {Absent, Given(<<>>), Given(<<"0">>), Given(<<"1", "0", "0", "0">>),
     Given(<<"1", "0", "0", "0", ".", "1">>), Given(<<"1", "5", "0", "0", "0">>),
     Given(<<"-", "5">>), Given(<<"a", "b", "c">>)}

CenterLatParams == {Absent, Given(<<"0">>), Given(<<"-", "1", "0">>), Given(<<"9", "1">>),
                    Given(<<"a">>)}
CenterLngParams == {Given(<<>>), Given(<<"2", "0">>), Given(<<"-", "1", "8", "1">>)}

VertexChoices ==
    {Vertex(<<Num(0), Num(0)>>), Vertex(<<Num(-10), Num(20)>>), Vertex(<<Num(91), Num(0)>>),
     Vertex(<<Num(1)>>)}

PolygonBodies ==
    {JsonUndefined, JsonString(<<>>), JsonString(<<"a">>),
     JsonArray(<<Vertex(<<Num(0), Num(0)>>), NotAVertex, Vertex(<<Num(91), Num(0)>>)>>)}
      \cup {JsonArray(s) : s \in UNION {[1..n -> VertexChoices] : n \in 0..MaxVertices}}

\* polygons of a direct call: those of a request body, and two with a NaN vertex
PolygonValues ==
    PolygonBodies
      \cup {JsonArray(<<Vertex(<<NaN, Num(0)>>), Vertex(<<Num(0), Num(0)>>),
                        Vertex(<<Num(0), Num(1)>>)>>),
            JsonArray(<<Vertex(<<Num(0), Num(0)>>), Vertex(<<Num(0), NaN>>),
                        Vertex(<<Num(1)>>)>>)}

ResolutionBodies ==
    {JsonUndefined, JsonNumber(Num(0)), JsonNumber(Num(5)), JsonNumber(Num(15)),
     JsonNumber(Fin(75)), JsonNumber(Num(16)), JsonString(<<"0">>), JsonString(<<"9">>),
     JsonString(<<>>), JsonString(<<"a">>)}

LatNums ==
    {NaN, PosInf, NegInf, Fin(-901), Num(-90), Fin(-899), Num(0), Fin(899), Num(90),
     Fin(901)}

LngNums ==
    {NaN, PosInf, NegInf, Fin(-1801), Num(-180), Fin(-1799), Num(0), Fin(1799), Num(180),
     Fin(1801)}

ResolutionNums ==
    {NaN, PosInf, NegInf, Num(-1), Fin(-5), Num(0), Fin(5), Num(7), Fin(75), Num(15),
     Fin(151), Num(16)}

RadiusNums ==
    {NaN, PosInf, NegInf, Num(-5000), Fin(5)}
      \cup {Num(1000 * j + d) : j \in 0..MaxRadiusKm, d \in {-1, 0, 1}}
      \cup {Fin(10000 * j + 1) : j \in 0..MaxRadiusKm}

Centers == {[lat |-> Num(0), lng |-> Num(0)], [lat |-> Num(-10), lng |-> Num(20)]}

\* bounding boxes of a direct call: proper, degenerate and inverted ones
Boxes ==
    {[minLat |-> a, minLng |-> b, maxLat |-> c, maxLng |-> d] :
        a \in {Num(-5), Num(10)}, b \in {Num(-20), Num(20)},
        c \in {Num(-5), Num(10)}, d \in {Num(-20), Num(20)}}

-----------------------------------------------------------------------------
(* The state machine: one action per request route and per direct service call. *)
(* The service keeps nothing between requests: from "idle" a request is handled *)
(* in one step, which leaves the request in op and args, its response in status *)
(* and body (status 0 for a direct call, whose body is the returned value), the *)
(* library calls it made, in order, in calls, and the error raised while it ran *)
(* in thrown, and every response written for it in sent; Finish then drops all *)
(* of it.  Between requests the process keeps apiKeys, read once from API_KEYS *)
(* at startup, and resolutionInfo, the contents of the static RESOLUTION_INFO  *)
(* array.                                                                      *)

\* the process as it starts with API_KEYS set to env
InitWith(env) ==
    /\ op = "idle"
    /\ args = NoValue
    /\ status = 0
    /\ body = NoValue
    /\ calls = <<>>
    /\ thrown = NoError
    /\ sent = <<>>
    /\ apiKeys = parseEnvList(env)
    /\ resolutionInfo = RESOLUTION_INFO

\* API_KEYS is not set
Init == InitWith(Absent)

\* the outcome of a request or call
Respond(name, a, reply) ==
    /\ op' = name
    /\ args' = a
    /\ status' = reply.status
    /\ body' = reply.body
    /\ calls' = reply.log
    /\ thrown' = reply.thrown
    /\ sent' = reply.sent

\* a request or call that writes nothing process-wide
Deliver(name, a, reply) ==
    /\ Respond(name, a, reply)
    /\ UNCHANGED <<apiKeys, resolutionInfo>>

\* a request to a route registered behind apiKeyMiddleware
Route(hdr, name, a, reply) ==
    Deliver(name, a @@ [header |-> hdr], apiKeyMiddleware(apiKeys, hdr, reply))

\* what a direct caller of a service method gets: the value, or the exception
Direct(out) ==
    [status |-> 0, body |-> out.value, log |-> out.log, thrown |-> out.thrown,
     sent |-> <<>>]

Returned(value) ==
    [status |-> 0, body |-> value, log |-> <<>>, thrown |-> NoError, sent |-> <<>>]

GetZoneRequest ==
    /\ op = "idle"
    /\ \E hdr \in RequestHeaders(apiKeys),
       lat \in LatTexts, lng \in LngTexts, res \in ResTexts,
       f \in FaultChoices, lenient \in BOOLEAN :
        Route(hdr, "GET /zone/:lat/:lng/:resolution",
                [lat |-> lat, lng |-> lng, resolution |-> res, faultAt |-> f,
                 lenient |-> lenient],
                ZoneHandler(lat, lng, res, f, lenient))

GetCenterRequest ==
    /\ op = "idle"
    /\ \E hdr \in RequestHeaders(apiKeys),
       h \in HashInputs, f \in FaultChoices, lenient \in BOOLEAN :
        Route(hdr, "GET /zone/:hash/center",
                [hash |-> h, faultAt |-> f, lenient |-> lenient],
                CenterHandler(h, f, lenient))

GetBoundaryRequest ==
    /\ op = "idle"
    /\ \E hdr \in RequestHeaders(apiKeys),
       h \in HashInputs, f \in FaultChoices, lenient \in BOOLEAN :
        Route(hdr, "GET /zone/:hash/boundary",
                [hash |-> h, faultAt |-> f, lenient |-> lenient],
                BoundaryHandler(h, f, lenient))

GetNeighborsRequest ==
    /\ op = "idle"
    /\ \E hdr \in RequestHeaders(apiKeys),
       h \in HashInputs, k \in KParams, f \in FaultChoices, lenient \in BOOLEAN :
        Route(hdr, "GET /zone/:hash/neighbors",
                [hash |-> h, k |-> k, faultAt |-> f, lenient |-> lenient],
                NeighborsHandler(h, k, f, lenient))

GetInfoRequest ==
    /\ op = "idle"
    /\ \E hdr \in RequestHeaders(apiKeys),
       h \in HashInputs, f \in FaultChoices, lenient \in BOOLEAN :
        Route(hdr, "GET /zone/:hash/info",
                [hash |-> h, faultAt |-> f, lenient |-> lenient],
                InfoHandler(h, f, lenient))

GetAreaRequest ==
    /\ op = "idle"
    /\ \E hdr \in RequestHeaders(apiKeys),
       a \in BoxLatParams, b \in BoxLngParams, c \in BoxLatParams,
       d \in BoxLngParams, r \in ResParams, f \in FaultChoices,
       lenient \in BOOLEAN :
        Route(hdr, "GET /zones/area",
                [minLat |-> a, minLng |-> b, maxLat |-> c, maxLng |-> d,
                 resolution |-> r, faultAt |-> f, lenient |-> lenient],
                AreaHandler(a, b, c, d, r, f, lenient))

GetRadiusRequest ==
    /\ op = "idle"
    /\ \E hdr \in RequestHeaders(apiKeys),
       lat \in CenterLatParams, lng \in CenterLngParams, radius \in RadiusParams,
       res \in ResParams, f \in FaultChoices, lenient \in BOOLEAN :
        Route(hdr, "GET /zones/radius",
                [lat |-> lat, lng |-> lng, radius |-> radius, resolution |-> res,
                 faultAt |-> f, lenient |-> lenient],
                RadiusHandler(lat, lng, radius, res, f, lenient))

PostPolygonRequest ==
    /\ op = "idle"
    /\ \E hdr \in RequestHeaders(apiKeys),
       polygon \in PolygonBodies, res \in ResolutionBodies, f \in FaultChoices,
       lenient \in BOOLEAN :
        Route(hdr, "POST /zones/polygon",
                [polygon |-> polygon, resolution |-> res, faultAt |-> f,
                 lenient |-> lenient],
                PolygonHandler(polygon, res, f, lenient))

CallValidateCoordinates ==
    /\ op = "idle"
    /\ \E lat \in LatNums, lng \in LngNums :
        Deliver("validateCoordinates", [lat |-> lat, lng |-> lng],
                Returned(validateCoordinates(lat, lng)))

CallValidateResolution ==
    /\ op = "idle"
    /\ \E r \in ResolutionNums :
        Deliver("validateResolution", [resolution |-> r],
                Returned(validateResolution(r)))

CallGetZone ==
    /\ op = "idle"
    /\ \E lat \in LatNums, lng \in LngNums, res \in ResolutionNums,
       f \in FaultChoices, lenient \in BOOLEAN :
        Deliver("getZone",
                [lat |-> lat, lng |-> lng, resolution |-> res, faultAt |-> f,
                 lenient |-> lenient],
                Direct(getZone(lat, lng, res, f, lenient)))

CallValidatePolygon ==
    /\ op = "idle"
    /\ \E polygon \in PolygonValues :
        Deliver("validatePolygon", [polygon |-> polygon],
                Returned(validatePolygon(polygon)))

CallGetZoneCenter ==
    /\ op = "idle"
    /\ \E h \in HashInputs, f \in FaultChoices, lenient \in BOOLEAN :
        Deliver("getZoneCenter", [hash |-> h, faultAt |-> f, lenient |-> lenient],
                Direct(getZoneCenter(h, f, lenient)))

CallGetZoneBoundary ==
    /\ op = "idle"
    /\ \E h \in HashInputs, f \in FaultChoices, lenient \in BOOLEAN :
        Deliver("getZoneBoundary", [hash |-> h, faultAt |-> f, lenient |-> lenient],
                Direct(getZoneBoundary(h, f, lenient)))

CallGetNeighbors ==
    /\ op = "idle"
    /\ \E h \in HashInputs, k \in {Num(1), Num(2), Num(10)}, f \in FaultChoices,
       lenient \in BOOLEAN :
        Deliver("getNeighbors",
                [hash |-> h, k |-> k, faultAt |-> f, lenient |-> lenient],
                Direct(getNeighbors(h, k, f, lenient)))

CallGetDetailedZoneInfo ==
    /\ op = "idle"
    /\ \E h \in HashInputs, f \in FaultChoices, lenient \in BOOLEAN :
        Deliver("getDetailedZoneInfo",
                [hash |-> h, faultAt |-> f, lenient |-> lenient],
                Direct(getDetailedZoneInfo(h, f, lenient)))

CallGetZonesInArea ==
    /\ op = "idle"
    /\ \E box \in Boxes, res \in {Num(0), Num(2)}, f \in FaultChoices,
       lenient \in BOOLEAN :
        Deliver("getZonesInArea",
                [boundingBox |-> box, resolution |-> res, faultAt |-> f,
                 lenient |-> lenient],
                Direct(getZonesInArea(box, res, f, lenient)))

CallGetZonesInRadius ==
    /\ op = "idle"
    /\ \E center \in Centers, radius \in RadiusNums, res \in {Num(0), Num(2)},
       f \in FaultChoices, lenient \in BOOLEAN :
        Deliver("getZonesInRadius",
                [center |-> center, radius |-> radius, resolution |-> res,
                 faultAt |-> f, lenient |-> lenient],
                Direct(getZonesInRadius(center, radius, res, f, lenient)))

\* the response is on its way and the handler has returned: nothing is retained
GetResolutionsRequest ==
    /\ op = "idle"
    /\ \E hdr \in HeaderChoices :
        LET reply == apiKeyMiddleware(apiKeys, hdr, ResolutionsHandler(resolutionInfo))
        IN  /\ Respond("GET /resolutions", [header |-> hdr], reply)
            /\ resolutionInfo' = IF reply.status = 200
                                 THEN TableAfterGetResolutionsInfo(resolutionInfo)
                                 ELSE resolutionInfo
            /\ UNCHANGED apiKeys

\* a request no route matches; the gate is not in front of the last middleware
UnknownRouteRequest ==
    /\ op = "idle"
    /\ \E path \in UnknownPaths, hdr \in RequestHeaders(apiKeys) :
        Deliver("no route", [path |-> path, header |-> hdr], NotFoundHandler)

\* a request Express fails before any route: express.json() and cors() run first
FailedBeforeRouteRequest ==
    /\ op = "idle"
    /\ \E err \in EarlyErrors, hdr \in RequestHeaders(apiKeys) :
        Deliver("error middleware", [cause |-> err, header |-> hdr],
                ErrorMiddleware(err))

CallGetResolutionsInfo ==
    /\ op = "idle"
    /\ Respond("getResolutionsInfo", NoValue,
               Returned(getResolutionsInfo(resolutionInfo)))
    /\ resolutionInfo' = TableAfterGetResolutionsInfo(resolutionInfo)
    /\ UNCHANGED apiKeys

Finish ==
    /\ op # "idle"
    /\ op' = "idle"
    /\ args' = NoValue
    /\ status' = 0
    /\ body' = NoValue
    /\ calls' = <<>>
    /\ thrown' = NoError
    /\ sent' = <<>>
    /\ UNCHANGED <<apiKeys, resolutionInfo>>

Next ==
    \/ Finish
    \/ GetZoneRequest
    \/ GetCenterRequest
    \/ GetBoundaryRequest
    \/ GetNeighborsRequest
    \/ GetInfoRequest
    \/ GetAreaRequest
    \/ GetRadiusRequest
    \/ PostPolygonRequest
    \/ CallValidateCoordinates
    \/ CallValidateResolution
    \/ CallGetZone
    \/ CallValidatePolygon
    \/ CallGetZoneCenter
    \/ CallGetZoneBoundary
    \/ CallGetNeighbors
    \/ CallGetDetailedZoneInfo
    \/ CallGetZonesInArea
    \/ CallGetZonesInRadius
    \/ GetResolutionsRequest
    \/ UnknownRouteRequest
    \/ FailedBeforeRouteRequest
    \/ CallGetResolutionsInfo

Spec == Init /\ [][Next]_vars

\* the process started with any of the API_KEYS values
InitGate == \E env \in ApiKeysEnv : InitWith(env)

SpecGate == InitGate /\ [][Next]_vars

-----------------------------------------------------------------------------
(* Properties *)

HashRoutes ==
    {"GET /zone/:hash/center", "GET /zone/:hash/boundary", "GET /zone/:hash/neighbors",
     "GET /zone/:hash/info"}

CoordinateRoutes == {"GET /zone/:lat/:lng/:resolution", "GET /zones/area", "GET /zones/radius"}

HttpRoutes == HashRoutes \cup CoordinateRoutes \cup {"POST /zones/polygon"}

DirectHashOps == {"getZoneCenter", "getZoneBoundary", "getNeighbors", "getDetailedZoneInfo"}

\* the calls of the current request to library function fn
CallsTo(fn) == {i \in 1..Len(calls) : calls[i].fn = fn}

\* x is a finite number with lo <= x <= hi
Within(x, lo, hi) == x.kind = "fin" /\ lo * 10 <= x.t /\ x.t <= hi * 10

\* C1: validateCoordinates returns isValid = false whenever lat or lng is NaN, so no
\* route handler passes a NaN latitude or longitude on to latLngToCell or
\* polygonToCells.
C1_NaNCoordinatesRejected ==
    /\ (op = "validateCoordinates" /\ (IsNaN(args.lat) \/ IsNaN(args.lng)))
          => ~body.isValid
    /\ op \in CoordinateRoutes =>
          /\ \A i \in CallsTo("latLngToCell") : ~IsNaN(calls[i].lat) /\ ~IsNaN(calls[i].lng)
          /\ \A i \in CallsTo("polygonToCells") :
                \A j \in 1..Len(calls[i].poly) :
                    ~IsNaN(calls[i].poly[j][1]) /\ ~IsNaN(calls[i].poly[j][2])

\* C2: for numeric lat and lng, validateCoordinates returns valid exactly when
\* -90 <= lat <= 90 and -180 <= lng <= 180, the four bounds included.
C2_CoordinateBoundsInclusive ==
    (op = "validateCoordinates" /\ ~IsNaN(args.lat) /\ ~IsNaN(args.lng))
        => (body.isValid <=> (Within(args.lat, -90, 90) /\ Within(args.lng, -180, 180)))

C2_Witness ==
    /\ op = "validateCoordinates"
    /\ args.lat = Num(90)
    /\ args.lng = Num(-180)
    /\ body.isValid

\* C3: validateResolution(r) returns valid exactly when r is an integer with
\* 0 <= r <= 15; NaN, fractions, -1 and 16 fail, 0 and 15 succeed.
C3_ResolutionIntegerInRange ==
    op = "validateResolution"
        => (body.isValid <=>
               (Within(args.resolution, 0, 15) /\ args.resolution.t % 10 = 0))

C3_Witness ==
    /\ op = "validateResolution"
    /\ args.resolution = Fin(75)
    /\ ~body.isValid

\* the body's polygon is an array of at least three in-range [lat, lng] pairs
WellFormedPolygon(polygon) ==
    /\ polygon.type = "array"
    /\ Len(polygon.items) >= 3
    /\ \A i \in 1..Len(polygon.items) :
          /\ polygon.items[i].isArray
          /\ Len(polygon.items[i].items) = 2
          /\ Within(polygon.items[i].items[1], -90, 90)
          /\ Within(polygon.items[i].items[2], -180, 180)

\* C4: a zones-in-polygon request with a valid polygon and a resolution that is a
\* JSON integer in 0..15 succeeds and is not reported as missing a parameter.
C4_IntegerResolutionNotMissing ==
    (/\ op = "POST /zones/polygon"
     /\ WellFormedPolygon(args.polygon)
     /\ args.resolution.type = "number"
     /\ Within(args.resolution.num, 0, 15)
     /\ args.resolution.num.t % 10 = 0)
        => /\ ~(status = 400 /\ body.error = "Missing parameters")
           /\ thrown = NoError => status = 200

\* C5: on the zone-neighbors route the ring distance is 1 when k is omitted, the
\* supplied value when it is an integer in [1,10], and a supplied k of 0, below 0 or
\* above 10 is answered with InvalidK without any ring traversal.
C5_NeighborsRingDistance ==
    (op = "GET /zone/:hash/neighbors" /\ isValidCell(args.hash)) =>
        LET k == ParseIntParam(args.k)
        IN  /\ ~args.k.present =>
                \A i \in CallsTo("gridDisk") : calls[i].num = Num(1)
            /\ (args.k.present /\ Within(k, 1, 10)) =>
                \A i \in CallsTo("gridDisk") : calls[i].num = k
            /\ (args.k.present /\ k.kind = "fin" /\ (k.t < 10 \/ k.t > 100)) =>
                /\ status = 400
                /\ body.error = "Invalid k value"
                /\ CallsTo("gridDisk") = {}

\* C6: a conversion or lookup method called directly with a hash that isValidCell
\* rejects fails with InvalidHash: it neither returns a result nor fails otherwise.
C6_DirectCallInvalidHash ==
    (op \in DirectHashOps /\ ~isValidCell(args.hash)) => thrown = HashMessage

\* C7: on the HTTP surface no lookup primitive is called with a caller-supplied
\* hash that isValidCell rejects: the four hash routes (the only ones that take a
\* hash) answer such a hash with 400 InvalidHash before any computation.
C7_NoLookupOnInvalidHash ==
    op \in HashRoutes =>
        /\ \A i \in 1..Len(calls) :
              (calls[i].fn \in HashCalls /\ calls[i].hash = args.hash)
                  => isValidCell(args.hash)
        /\ ~isValidCell(args.hash) =>
              /\ status = 400
              /\ body.error = "Invalid H3 hash"
              /\ \A i \in 1..Len(calls) : calls[i].fn \notin HashCalls

C7_Witness ==
    /\ op = "GET /zone/:hash/info"
    /\ ~isValidCell(args.hash)
    /\ status = 400
    /\ calls = <<CallIsValidCell(args.hash)>>

\* C8: a 500 response carries a generic message, not the text of the error thrown.
C8_InternalErrorIsGeneric ==
    (op \in HttpRoutes /\ status = 500) => body.message # thrown

\* C9: an exception thrown by the library while a route handler runs is answered
\* with a 500 InternalError response, and the service goes on serving: the request
\* finishes and the next one is accepted.
C9_LibraryFailureAnswered500 ==
    /\ (op \in HttpRoutes /\ thrown # NoError) =>
          /\ status = 500
          /\ body.error = "Internal server error"
          /\ ENABLED Finish
    /\ op = "idle" => ENABLED GetZoneRequest /\ ENABLED GetInfoRequest

C9_Witness ==
    /\ op = "GET /zones/area"
    /\ thrown = UnexpectedFailure
    /\ status = 500

RadiusOps == {"getZonesInRadius", "GET /zones/radius"}

\* the radius the service method received
RadiusGiven ==
    IF op = "getZonesInRadius" THEN args.radius ELSE ParseFloatParam(args.radius)

\* min(max(1, ceil(r / 1000)), 10) for a radius of t tenths of a metre
ClampedRings(r) ==
    CASE r.kind = "pinf" -> 10
      [] r.kind = "ninf" -> 1
      [] r.kind = "fin" /\ r.t <= 10000 -> 1
      [] r.kind = "fin" /\ r.t > 90000 -> 10
      [] OTHER -> CHOOSE n \in 2..9 : (n - 1) * 10000 < r.t /\ r.t <= n * 10000

\* C10: for every radius r that is a number, radius enumeration hands gridDisk the
\* center cell and the ring count min(max(1, ceil(r / 1000)), 10), an integer never
\* below 1 and never above 10, and returns the cells of that disk.
C10_RadiusRingClamped ==
    (op \in RadiusOps /\ ~IsNaN(RadiusGiven)) =>
        \A i \in CallsTo("gridDisk") :
            /\ Within(calls[i].num, 1, 10)
            /\ calls[i].num = Num(ClampedRings(RadiusGiven))
            /\ calls[i].hash = latLngToCell(calls[1].lat, calls[1].lng, calls[1].num)
            /\ thrown = NoError =>
                  [j \in 1..Len(body.zones) |-> body.zones[j].hash]
                      = gridDisk(calls[i].hash, Num(ClampedRings(RadiusGiven)))

C10_Witness ==
    /\ op = "GET /zones/radius"
    /\ status = 200
    /\ body.radius = Num(15000)
    /\ calls[2].fn = "gridDisk"
    /\ calls[2].num = Num(10)
    /\ body.count = Len(gridDisk(calls[2].hash, Num(10)))

\* max(1, ceil(r / 1000)) for a radius r in metres, with no upper limit: the least
\* n >= 1 with r <= 1000 n (Infinity for an infinite radius, NaN for NaN)
RawEstimate(r) ==
    CASE r.kind = "nan" -> NaN
      [] r.kind = "pinf" -> PosInf
      [] r.kind = "ninf" -> Num(1)
      [] r.kind = "fin" /\ r.t <= 10000 -> Num(1)
      [] OTHER ->
            Num(CHOOSE n \in 2..(r.t \div 10000 + 1) :
                    (n - 1) * 10000 < r.t /\ r.t <= n * 10000)

RadiusSucceeded ==
    \/ op = "getZonesInRadius" /\ thrown = NoError
    \/ op = "GET /zones/radius" /\ status = 200

\* C11: every successful zones-in-radius response reports estimatedK as the raw
\* estimate max(1, ceil(radius / 1000)), not the clamped ring count, and carries the
\* approximation note, whatever the radius and whether or not the clamp applied.
C11_EstimatedKIsRaw ==
    RadiusSucceeded =>
        /\ body.estimatedK = RawEstimate(RadiusGiven)
        /\ body.note
              = "This is an approximation. For precise radius filtering, calculate actual distances from center."

C11_Witness ==
    /\ op = "getZonesInRadius"
    /\ thrown = NoError
    /\ body.estimatedK = Num(13)
    /\ calls[2].fn = "gridDisk"
    /\ calls[2].num = Num(10)
    /\ body.note = RadiusNote

InfoOps == {"getDetailedZoneInfo", "GET /zone/:hash/info"}

InfoSucceeded ==
    \/ op = "getDetailedZoneInfo" /\ thrown = NoError
    \/ op = "GET /zone/:hash/info" /\ status = 200

\* the resolution of the cell the current request is about
CellResolution == getResolution(args.hash)

\* the child sequence the library returns for the cell at the next resolution,
\* empty when the cell is at resolution 15
LibraryChildren ==
    IF CellResolution = 15 THEN <<>> ELSE cellToChildren(args.hash, CellResolution + 1)

C13_HierarchyOneLevel ==
    op \in InfoOps =>
        /\ \A i \in CallsTo("cellToParent") :
              /\ CellResolution > 0
              /\ calls[i].num = Num(CellResolution - 1)
              /\ Within(calls[i].num, 0, 15)
        /\ \A i \in CallsTo("cellToChildren") :
              /\ CellResolution < 15
              /\ calls[i].num = Num(CellResolution + 1)
              /\ Within(calls[i].num, 0, 15)
        /\ InfoSucceeded =>
              /\ body.parent = NoHash <=> CellResolution = 0
              /\ CallsTo("cellToParent") # {} <=> CellResolution > 0
              /\ CallsTo("cellToChildren") # {} <=> CellResolution < 15
              /\ CellResolution > 0 =>
                    body.parent = cellToParent(args.hash, CellResolution - 1)
              /\ (CellResolution > 0 /\ isValidCell(args.hash)) =>
                    getResolution(body.parent) = CellResolution - 1
              /\ isValidCell(args.hash) =>
                    \A i \in 1..Len(body.children) :
                        getResolution(body.children[i]) = CellResolution + 1

C13_Witness ==
    /\ op = "getDetailedZoneInfo"
    /\ thrown = NoError
    /\ isValidCell(args.hash)
    /\ CellResolution = 15
    /\ getResolution(body.parent) = 14
    /\ body.children = <<>>
    /\ CallsTo("cellToChildren") = {}

\* C14: for every valid hash, zoneDetail's neighbors are the cells of
\* ringDisk(hash, 1) other than hash, in the disk's order: hash never appears in
\* its own neighbor list.
C14_DetailNeighborsExcludeSelf ==
    (InfoSucceeded /\ isValidCell(args.hash)) =>
        /\ body.neighbors
              = SelectSeq(gridDisk(args.hash, Num(1)), LAMBDA c : c # args.hash)
        /\ \A i \in 1..Len(body.neighbors) : body.neighbors[i] # args.hash
        /\ \E i \in CallsTo("gridDisk") :
              calls[i].hash = args.hash /\ calls[i].num = Num(1)

C14_Witness ==
    /\ op = "GET /zone/:hash/info"
    /\ status = 200
    /\ args.hash = Hash(10, <<3>>)
    /\ body.neighbors = <<Hash(10, <<4>>), Hash(10, <<2>>)>>

NeighborsOps == {"getNeighbors", "GET /zone/:hash/neighbors"}

NeighborsSucceeded ==
    \/ op = "getNeighbors" /\ thrown = NoError
    \/ op = "GET /zone/:hash/neighbors" /\ status = 200

\* the hashes of a list of enriched cells, in the list's order
HashesOf(entries) == [i \in 1..Len(entries) |-> entries[i].hash]

\* C15: for every valid hash and k in [1,10], getNeighbors returns the whole disk
\* ringDisk(hash, k), hash itself included, and count is the size of that disk with
\* the center cell: for k = 1, one more than the neighbors zoneDetail reports.
C15_NeighborsIncludeSelf ==
    (NeighborsSucceeded /\ isValidCell(args.hash) /\ Within(body.k, 1, 10)) =>
        /\ HashesOf(body.neighbors) = gridDisk(args.hash, body.k)
        /\ \E i \in 1..Len(body.neighbors) : body.neighbors[i].hash = args.hash
        /\ body.count = Len(gridDisk(args.hash, body.k))
        /\ body.k = Num(1) =>
              body.count
                = 1 + Len(SelectSeq(gridDisk(args.hash, Num(1)), LAMBDA c : c # args.hash))

C15_Witness ==
    /\ op = "getNeighbors"
    /\ thrown = NoError
    /\ args.hash = Hash(10, <<3>>)
    /\ args.k = Num(2)
    /\ body.count = 5
    /\ body.neighbors[1].hash = args.hash

AreaOps == {"getZonesInArea", "GET /zones/area"}

\* the bounding box and the resolution the service method received
BoxGiven ==
    IF op = "getZonesInArea" THEN args.boundingBox
    ELSE [minLat |-> ParseFloatParam(args.minLat), minLng |-> ParseFloatParam(args.minLng),
          maxLat |-> ParseFloatParam(args.maxLat), maxLng |-> ParseFloatParam(args.maxLng)]

AreaResolutionGiven ==
    IF op = "getZonesInArea" THEN args.resolution ELSE ParseIntParam(args.resolution)

\* the box is made of in-range coordinates and the resolution is an integer in 0..15
AreaInputValid ==
    /\ Within(BoxGiven.minLat, -90, 90)
    /\ Within(BoxGiven.maxLat, -90, 90)
    /\ Within(BoxGiven.minLng, -180, 180)
    /\ Within(BoxGiven.maxLng, -180, 180)
    /\ Within(AreaResolutionGiven, 0, 15)
    /\ AreaResolutionGiven.t % 10 = 0

\* C16: bounding-box enumeration hands polygonToCells the ring (minLat,minLng),
\* (minLat,maxLng), (maxLat,maxLng), (maxLat,minLng), (minLat,minLng), in that order
\* and at the requested resolution; the ring is closed for every box, and a
\* degenerate (min = max) or inverted (min > max) box is not rejected.
C16_BoxRingClosed ==
    op \in AreaOps =>
        /\ \A i \in CallsTo("polygonToCells") :
              /\ Len(calls[i].poly) = 5
              /\ calls[i].poly[1] = <<BoxGiven.minLat, BoxGiven.minLng>>
              /\ calls[i].poly[2] = <<BoxGiven.minLat, BoxGiven.maxLng>>
              /\ calls[i].poly[3] = <<BoxGiven.maxLat, BoxGiven.maxLng>>
              /\ calls[i].poly[4] = <<BoxGiven.maxLat, BoxGiven.minLng>>
              /\ calls[i].poly[5] = calls[i].poly[1]
              /\ calls[i].num = AreaResolutionGiven
        /\ AreaInputValid =>
              /\ status # 400
              /\ calls # <<>>
              /\ calls[1].fn = "polygonToCells"

C16_Witness ==
    /\ op = "GET /zones/area"
    /\ status = 200
    /\ body.boundingBox.minLat = body.boundingBox.maxLat
    /\ Gt(body.boundingBox.minLng, body.boundingBox.maxLng)
    /\ calls[1].fn = "polygonToCells"
    /\ calls[1].poly[5] = <<Num(10), Num(20)>>

\* a polygon element that is not a two-element pair
VertexMalformed(v) == ~v.isArray \/ Len(v.items) # 2

\* a two-element pair that is not a coordinate: -90 <= lat <= 90, -180 <= lng <= 180
VertexOutOfRange(v) ==
    ~VertexMalformed(v)
      /\ ~(Within(v.items[1], -90, 90) /\ Within(v.items[2], -180, 180))

VertexBad(v) == VertexMalformed(v) \/ VertexOutOfRange(v)

\* C17: validatePolygon(poly) returns valid exactly when poly is a sequence of at
\* least 3 elements, each a two-element pair that is coordinate-valid; a sequence
\* of fewer than 3 vertices fails with the too-few-vertices reason whatever its
\* vertices are.
C17_PolygonValidIff ==
    op = "validatePolygon" =>
        /\ body.isValid <=>
              /\ args.polygon.type = "array"
              /\ Len(args.polygon.items) >= 3
              /\ \A i \in 1..Len(args.polygon.items) : ~VertexBad(args.polygon.items[i])
        /\ (args.polygon.type = "array" /\ Len(args.polygon.items) < 3) =>
              /\ ~body.isValid
              /\ body.error
                    = "Polygon must be an array of at least 3 [lat, lng] coordinates"

\* the index of the first bad vertex of a polygon that has one
FirstBad(items) ==
    CHOOSE i \in 1..Len(items) :
        VertexBad(items[i]) /\ \A j \in 1..(i - 1) : ~VertexBad(items[j])

\* polygons of three vertices whose only bad vertex is out of range, at each index
CitationProbes ==
    LET good == Vertex(<<Num(0), Num(0)>>)
        bad == Vertex(<<Num(91), Num(0)>>)
    IN  {JsonArray(<<bad, good, good>>), JsonArray(<<good, bad, good>>),
         JsonArray(<<good, good, bad>>)}

\* no vertex of the polygon holds NaN
NoNaNVertex(polygon) ==
    \A i \in 1..Len(polygon.items) :
        \A j \in 1..Len(polygon.items[i].items) : ~IsNaN(polygon.items[i].items[j])

\* C18: for a polygon of at least 3 vertices with a bad vertex, validatePolygon
\* returns the reason of the lowest-index bad vertex (a malformed pair before a
\* range violation wins, and the reverse), and a coordinate-range reason cites
\* which vertex it is: it differs from the reason given when the first bad vertex
\* is another one.  (Stated for polygons without NaN, which C17 covers.)
C18_FirstBadVertexReported ==
    (/\ op = "validatePolygon"
     /\ args.polygon.type = "array"
     /\ Len(args.polygon.items) >= 3
     /\ NoNaNVertex(args.polygon)
     /\ \E i \in 1..Len(args.polygon.items) : VertexBad(args.polygon.items[i])) =>
        LET first == FirstBad(args.polygon.items)
        IN  /\ ~body.isValid
            /\ VertexMalformed(args.polygon.items[first]) =>
                  body.error = "Each polygon coordinate must be a [lat, lng] array"
            /\ VertexOutOfRange(args.polygon.items[first]) =>
                  /\ body.error
                        = "Latitude must be between -90 and 90, longitude between -180 and 180"
                  /\ \A q \in CitationProbes :
                        FirstBad(q.items) # first
                            => validatePolygon(q).error # body.error

ZoneOps == {"getZone", "GET /zone/:lat/:lng/:resolution"}

ZoneSucceeded ==
    \/ op = "getZone" /\ thrown = NoError
    \/ op = "GET /zone/:lat/:lng/:resolution" /\ status = 200

\* the point and the resolution the service method received
ZoneGiven ==
    IF op = "getZone"
    THEN [lat |-> args.lat, lng |-> args.lng, resolution |-> args.resolution]
    ELSE [lat |-> ParseFloat(args.lat), lng |-> ParseFloat(args.lng),
          resolution |-> ParseInt(args.resolution)]

ZoneInputValid ==
    /\ Within(ZoneGiven.lat, -90, 90)
    /\ Within(ZoneGiven.lng, -180, 180)
    /\ Within(ZoneGiven.resolution, 0, 15)
    /\ ZoneGiven.resolution.t % 10 = 0

\* C19: for all valid (lat, lng, resolution), getZone returns the cell the library
\* resolves the point to: a hash isValidCell accepts whose resolution, read back
\* from the hash, is the requested one; the center is cellToPoint(hash), the
\* canonical center, not the input point; the input triple is echoed unchanged.
C19_ResolveZone ==
    (ZoneSucceeded /\ ZoneInputValid) =>
        /\ calls[1] = CallLatLngToCell(ZoneGiven.lat, ZoneGiven.lng, ZoneGiven.resolution)
        /\ body.hash = latLngToCell(ZoneGiven.lat, ZoneGiven.lng, ZoneGiven.resolution)
        /\ isValidCell(body.hash)
        /\ getResolution(body.hash) * 10 = ZoneGiven.resolution.t
        /\ body.resolution * 10 = ZoneGiven.resolution.t
        /\ body.center.lat = cellToLatLng(body.hash)[1]
        /\ body.center.lng = cellToLatLng(body.hash)[2]
        /\ body.input = ZoneGiven

C19_Witness ==
    /\ op = "GET /zone/:lat/:lng/:resolution"
    /\ status = 200
    /\ body.input.resolution = Num(15)
    /\ getResolution(body.hash) = 15
    /\ body.center.lat # body.input.lat
    /\ body.center = formatCenter(cellToLatLng(body.hash))

EnumerationSucceeded ==
    \/ op \in {"getNeighbors", "getZonesInArea", "getZonesInRadius"} /\ thrown = NoError
    \/ /\ op \in {"GET /zone/:hash/neighbors", "GET /zones/area", "GET /zones/radius",
                  "POST /zones/polygon"}
       /\ status = 200

\* the enriched cell list of an enumeration response
ZoneList == IF op \in NeighborsOps THEN body.neighbors ELSE body.zones

\* what the library returned to a ring or fill call of the log
PrimitiveResult(c) ==
    IF c.fn = "gridDisk" THEN gridDisk(c.hash, c.num) ELSE polygonToCells(c.poly, c.num)

\* C20: in every enumeration response (neighbors, box, radius, polygon) the zone
\* list has one entry per cell the library's ring or fill call returned, in the
\* library's order, nothing added, dropped or re-sorted; each entry's center is
\* cellToPoint of its own hash; count is the length of the list.
C20_EnumerationKeepsLibraryOrder ==
    EnumerationSucceeded =>
        /\ Cardinality(CallsTo("gridDisk") \cup CallsTo("polygonToCells")) = 1
        /\ \A i \in CallsTo("gridDisk") \cup CallsTo("polygonToCells") :
              HashesOf(ZoneList) = PrimitiveResult(calls[i])
        /\ \A j \in 1..Len(ZoneList) :
              /\ ZoneList[j].center.lat = cellToLatLng(ZoneList[j].hash)[1]
              /\ ZoneList[j].center.lng = cellToLatLng(ZoneList[j].hash)[2]
        /\ body.count = Len(ZoneList)

C20_Witness ==
    /\ op = "POST /zones/polygon"
    /\ status = 200
    /\ body.count = 2
    /\ HashesOf(body.zones) = polygonToCells(calls[1].poly, calls[1].num)
    /\ body.zones[1].hash # body.zones[2].hash
    /\ body.zones[2].center = formatCenter(cellToLatLng(body.zones[2].hash))

-----------------------------------------------------------------------------
(* The API-key gate *)

\* the routes registered behind apiKeyMiddleware
GatedRoutes == HttpRoutes \cup {"GET /resolutions"}

\* text is one of the configured keys
Listed(text) == \E i \in 1..Len(apiKeys) : apiKeys[i] = text

\* an API_KEYS value that is unset or holds nothing but blanks and commas
BlankOnly(env) == ~env.present \/ \A i \in 1..Len(env.text) : env.text[i] \in {" ", ","}

\* the response the gate itself writes
GateDenied == status \in {401, 403} /\ calls = <<>> /\ thrown = NoError

\* C29: with a non-empty key list, a request to a zone, zones or resolutions
\* route whose key header is not a listed key is answered by the gate, before
\* any parameter validation and with no library call: 401 Unauthorized when the
\* header is absent, 403 Forbidden when it carries a key that is not listed; a
\* listed key passes.  With an empty list (API_KEYS unset or holding only blank
\* entries) every request passes the gate.
C29_ApiKeyGate ==
    /\ \A env \in ApiKeysEnv : BlankOnly(env) => parseEnvList(env) = <<>>
    /\ (op \in GatedRoutes /\ Len(apiKeys) > 0) =>
          /\ (~args.header.present \/ ~Listed(args.header.text)) => GateDenied
          /\ ~args.header.present =>
                status = 401 /\ body.error = "Unauthorized"
          /\ (args.header.present /\ args.header.text # <<>>
                /\ ~Listed(args.header.text)) =>
                status = 403 /\ body.error = "Forbidden"
          /\ (args.header.present /\ Listed(args.header.text)) =>
                status \notin {401, 403}
    /\ (op \in GatedRoutes /\ Len(apiKeys) = 0) => status \notin {401, 403}

\* a key of another list is refused although the hash of the request is malformed
C29_Witness ==
    /\ op = "GET /zone/:hash/center"
    /\ apiKeys = <<Key1>>
    /\ args.header = Given(Key2)
    /\ ~isValidCell(args.hash)
    /\ status = 403
    /\ calls = <<>>

-----------------------------------------------------------------------------
(* Response shapes *)

\* the statuses the service answers errors with
ErrorStatuses == {400, 401, 403, 404, 500}

\* the error categories of each status
Categories(code) ==
    IF code = 400
    THEN {"Invalid coordinates", "Invalid resolution", "Invalid H3 hash", "Invalid k value",
          "Invalid polygon", "Missing parameters"}
    ELSE IF code = 401 THEN {"Unauthorized"}
    ELSE IF code = 403 THEN {"Forbidden"}
    ELSE IF code = 404 THEN {"Not found"}
    ELSE {"Internal server error"}

\* r is an error response of the documented shape
ErrorShaped(r) ==
    /\ DOMAIN r.body = {"error", "message"}
    /\ r.body.error \in Categories(r.status)

\* C24: every response is a 200 or one of 400, 401, 403, 404, 500; an error
\* response is an object with exactly the fields error (the category of its
\* status) and message; no success response has an error field.
C24_ErrorObjectShape ==
    \A i \in 1..Len(sent) :
        /\ sent[i].status \in ErrorStatuses \cup {200}
        /\ sent[i].status \in ErrorStatuses => ErrorShaped(sent[i])
        /\ sent[i].status = 200 => "error" \notin DOMAIN sent[i].body

\* a listed key, a valid request, and the library fails: the 500 is error-shaped
C24_Witness ==
    /\ op = "GET /zone/:lat/:lng/:resolution"
    /\ apiKeys = <<Key1, Key2>>
    /\ args.header = Given(Key2)
    /\ status = 500
    /\ thrown # NoError
    /\ Len(sent) = 1
    /\ ErrorShaped(sent[1])

\* C23: a request that reaches a zone, zones or resolutions handler is answered
\* with exactly one response, written after the last library call made for it:
\* either a success object (no library call failed, no error field) or an error
\* object, never one after the other.  A 400 is written before any conversion or
\* enumeration call; a 500 is written right after the call that threw.
C23_ExactlyOneResponse ==
    op \in GatedRoutes =>
        /\ Len(sent) = 1
        /\ sent[1].status = status /\ sent[1].body = body
        /\ sent[1].after = Len(calls)
        /\ status \in ErrorStatuses \cup {200}
        /\ status = 200 => thrown = NoError /\ "error" \notin DOMAIN body
        /\ status # 200 => ErrorShaped(sent[1])
        /\ status = 400 => \A i \in 1..Len(calls) : calls[i].fn = "isValidCell"
        /\ status = 500 => thrown # NoError /\ calls # <<>>

\* the library fails at the third call made for a detail request: one 500, nothing after
C23_Witness ==
    /\ op = "GET /zone/:hash/info"
    /\ thrown # NoError
    /\ Len(calls) = 3
    /\ Len(sent) = 1
    /\ sent[1].status = 500
    /\ sent[1].after = 3

-----------------------------------------------------------------------------
(* In-process callers and the resolution table.  The object getResolutionsInfo *)
(* returns is fresh, but its resolutions field is the static array itself: a   *)
(* caller that writes to it writes to the table.                               *)

\* how many entries a caller removes at most
MaxPops == 2

\* what a caller does with the resolutions array it was handed
Modifications(table) ==
    {[i \in 1..Len(table) |-> table[Len(table) + 1 - i]]}
      \cup (IF Len(table) > Len(RESOLUTION_INFO) - MaxPops
            THEN {SubSeq(table, 1, Len(table) - 1),
                  [table EXCEPT ![Len(table)].resolution = 0]}
            ELSE {})

\* result.resolutions.reverse(), .pop(), or result.resolutions[n].resolution = 0,
\* by the caller that holds the result of getResolutionsInfo
CallerModifiesResolutions ==
    /\ op = "getResolutionsInfo"
    /\ \E t \in Modifications(body.resolutions) :
        /\ body' = [body EXCEPT !.resolutions = t]
        /\ resolutionInfo' = t
    /\ UNCHANGED <<op, args, status, calls, thrown, sent, apiKeys>>

\* result.description = '', by the same caller: the result object itself is fresh
CallerModifiesDescription ==
    /\ op = "getResolutionsInfo"
    /\ body.description # ""
    /\ body' = [body EXCEPT !.description = ""]
    /\ UNCHANGED <<op, args, status, calls, thrown, sent, apiKeys, resolutionInfo>>

NextTable ==
    \/ Finish
    \/ CallGetResolutionsInfo
    \/ CallerModifiesResolutions
    \/ CallerModifiesDescription
    \/ GetResolutionsRequest
    \/ CallValidateResolution
    \/ CallGetZoneCenter

SpecTable == Init /\ [][NextTable]_vars

\* the table of sixteen descriptors, entry i describing resolution i
OriginalTable(t) ==
    /\ Len(t) = 16
    /\ \A i \in 0..15 : t[i + 1].resolution = i
    /\ t = RESOLUTION_INFO

\* C21: whatever service calls came before, and whatever a caller did to the
\* object an earlier getResolutionsInfo call returned, a getResolutionsInfo call
\* (direct, or behind GET /resolutions) returns the original table: sixteen
\* descriptors, entry i with resolution i.
C21_TableIsConstant ==
    [][(op = "idle" /\ op' \in {"getResolutionsInfo", "GET /resolutions"})
          => OriginalTable(body'.resolutions)]_vars

-----------------------------------------------------------------------------
(* Requests and the process-wide state *)

-----------------------------------------------------------------------------
(* Resolution texts *)

\* the resolution of a request to a coordinate route, as the text it arrived as
ResolutionText ==
    IF op = "GET /zone/:lat/:lng/:resolution" THEN Given(args.resolution)
    ELSE args.resolution

\* text is the decimal notation of an integer in [0, 15]
DenotesResolution(text) ==
    /\ text # <<>>
    /\ \A i \in 1..Len(text) : text[i] \in Digits
    /\ DigitsValue(text, Len(text)) <= 15

\* C25: on the routes that take the resolution as text (resolve zone, zones in
\* box, zones in radius), a resolution text that does not denote an integer in
\* [0,15] ("7.5", "9abc", "16", "-1", "abc") is rejected with a 400; it is never
\* truncated to an integer and resolved.
C25_ResolutionTextRejected ==
    (op \in CoordinateRoutes /\ ~Falsy(ResolutionText)
        /\ ~DenotesResolution(ResolutionText.text)) => status = 400

-----------------------------------------------------------------------------
(* The radius estimate over HTTP *)

\* C27: every successful GET /zones/radius response has an estimatedK that is an
\* integer >= 1, and the ring count handed to gridDisk for it is an integer in
\* [1,10], whatever radius text got past the missing-parameter check: "0", a
\* negative number, or text that does not parse as a number.
C27_RadiusEstimateIsInteger ==
    (op = "GET /zones/radius" /\ status = 200) =>
        /\ IsInteger(body.estimatedK)
        /\ ~Lt(body.estimatedK, Num(1))
        /\ \A i \in CallsTo("gridDisk") :
              IsInteger(calls[i].num) /\ Within(calls[i].num, 1, 10)

-----------------------------------------------------------------------------
(* Bounding-box validation *)

\* a GET /zones/area request with all five parameters given
BoxRequestComplete ==
    /\ op = "GET /zones/area"
    /\ ~Falsy(args.minLat) /\ ~Falsy(args.minLng)
    /\ ~Falsy(args.maxLat) /\ ~Falsy(args.maxLng)
    /\ ~Falsy(args.resolution)

\* one of the two corners is not a coordinate pair within range
CornerOutOfRange ==
    \/ ~(Within(BoxGiven.minLat, -90, 90) /\ Within(BoxGiven.minLng, -180, 180))
    \/ ~(Within(BoxGiven.maxLat, -90, 90) /\ Within(BoxGiven.maxLng, -180, 180))

\* C30: a complete zones-in-box request is answered 400 InvalidCoordinates if and
\* only if one of its corners is out of range, and then nothing was computed; a
\* box of four in-range values is never refused for its shape (min > max, min =
\* max): with a valid resolution it goes to the polygon fill; the success response
\* echoes the parsed box and resolution.
C30_BoxCornersValidated ==
    BoxRequestComplete =>
        /\ (status = 400 /\ body.error = "Invalid coordinates") <=> CornerOutOfRange
        /\ status = 400 => calls = <<>>
        /\ (~CornerOutOfRange /\ Within(AreaResolutionGiven, 0, 15)) =>
              /\ status # 400
              /\ CallsTo("polygonToCells") # {}
        /\ status = 200 =>
              /\ body.boundingBox = BoxGiven
              /\ body.resolution = AreaResolutionGiven

\* the four values of the box are numbers
BoxIsNumeric ==
    /\ ~IsNaN(BoxGiven.minLat) /\ ~IsNaN(BoxGiven.minLng)
    /\ ~IsNaN(BoxGiven.maxLat) /\ ~IsNaN(BoxGiven.maxLng)

-----------------------------------------------------------------------------
(* Error precedence *)

\* (lat, lng) is not a coordinate pair: -90 <= lat <= 90, -180 <= lng <= 180
CoordinateFault(lat, lng) == ~(Within(lat, -90, 90) /\ Within(lng, -180, 180))

\* r, the resolution as parsed, is not an integer in [0, 15]
ResolutionFault(r) == ~(IsInteger(r) /\ Within(r, 0, 15))

\* k, as parsed and defaulted, is not an integer in [1, 10]
KFault(k) == ~(IsInteger(k) /\ Within(k, 1, 10))

NoFault == "none"

\* the first entry of a check order, given as <<fault present, category>> pairs
RECURSIVE FirstOf(_)
FirstOf(order) ==
    IF order = <<>> THEN NoFault
    ELSE IF Head(order)[1] THEN Head(order)[2]
    ELSE FirstOf(Tail(order))

\* the first fault of the current request in its endpoint's check order
FirstFault ==
    CASE op = "GET /zone/:lat/:lng/:resolution" ->
            FirstOf(<< <<CoordinateFault(ZoneGiven.lat, ZoneGiven.lng), "Invalid coordinates">>,
                       <<ResolutionFault(ZoneGiven.resolution), "Invalid resolution">> >>)
      [] op = "GET /zone/:hash/neighbors" ->
            FirstOf(<< <<~isValidCell(args.hash), "Invalid H3 hash">>,
                       <<KFault(OrOne(ParseIntParam(args.k))), "Invalid k value">> >>)
      [] op = "GET /zones/area" ->
            FirstOf(<< <<\E p \in {args.minLat, args.minLng, args.maxLat, args.maxLng,
                                   args.resolution} : Falsy(p), "Missing parameters">>,
                       <<CornerOutOfRange, "Invalid coordinates">>,
                       <<ResolutionFault(AreaResolutionGiven), "Invalid resolution">> >>)
      [] op = "GET /zones/radius" ->
            FirstOf(<< <<\E p \in {args.lat, args.lng, args.radius, args.resolution} :
                             Falsy(p), "Missing parameters">>,
                       <<CoordinateFault(ParseFloatParam(args.lat),
                                         ParseFloatParam(args.lng)), "Invalid coordinates">>,
                       <<ResolutionFault(ParseIntParam(args.resolution)),
                         "Invalid resolution">> >>)
      [] op = "POST /zones/polygon" ->
            FirstOf(<< <<JsonFalsy(args.polygon) \/ JsonFalsy(args.resolution),
                         "Missing parameters">>,
                       <<ResolutionFault(ParseIntJson(args.resolution)), "Invalid resolution">>,
                       <<~WellFormedPolygon(args.polygon), "Invalid polygon">> >>)

PrecedenceRoutes ==
    {"GET /zone/:lat/:lng/:resolution", "GET /zone/:hash/neighbors", "GET /zones/area",
     "GET /zones/radius", "POST /zones/polygon"}

\* C26: a request with one or more faults is answered with one 400 whose category
\* is the first fault in its endpoint's check order (resolve zone: coordinates,
\* resolution; neighbors: hash, k; box and radius: missing parameters,
\* coordinates, resolution; polygon: missing parameters, resolution, polygon),
\* and no library conversion or enumeration call is made for a request that ends
\* in a 400.
C26_FirstFaultReported ==
    op \in PrecedenceRoutes =>
        /\ FirstFault # NoFault =>
              /\ Len(sent) = 1
              /\ status = 400
              /\ body.error = FirstFault
        /\ status = 400 => \A i \in 1..Len(calls) : calls[i].fn = "isValidCell"

\* the coordinates of the request are numbers
CoordinatesNumeric ==
    CASE op = "GET /zone/:lat/:lng/:resolution" ->
            ~IsNaN(ZoneGiven.lat) /\ ~IsNaN(ZoneGiven.lng)
      [] op = "GET /zones/area" -> BoxIsNumeric
      [] op = "GET /zones/radius" ->
            ~IsNaN(ParseFloatParam(args.lat)) /\ ~IsNaN(ParseFloatParam(args.lng))
      [] OTHER -> TRUE

-----------------------------------------------------------------------------
(* The legacy JavaScript server: the validation its route handlers do before  *)
(* they call the library.  Each operator gives the category of the 400 the    *)
(* handler answers, or Passed when the request goes on to the library.        *)

\* a <= b on JavaScript numbers: false when either is NaN
Le(a, b) == Lt(a, b) \/ (~IsNaN(a) /\ ~IsNaN(b) /\ a = b)

\* isValidCoordinate = (lat, lng) => lat >= -90 && lat <= 90 && lng >= -180 && lng <= 180
isValidCoordinate(lat, lng) ==
    /\ Le(Num(MinLat), lat) /\ Le(lat, Num(MaxLat))
    /\ Le(Num(MinLng), lng) /\ Le(lng, Num(MaxLng))

\* isValidResolution = (resolution) => resolution >= 0 && resolution <= 15
isValidResolution(resolution) ==
    Le(Num(MinResolution), resolution) /\ Le(resolution, Num(MaxResolution))

Passed == "passed"

\* app.get('/zone/:lat/:lng/:resolution', ...)
LegacyZone(latText, lngText, resText) ==
    IF ~isValidCoordinate(ParseFloat(latText), ParseFloat(lngText))
    THEN "Invalid coordinates"
    ELSE IF ~isValidResolution(ParseInt(resText)) THEN "Invalid resolution"
    ELSE Passed

\* app.get('/zone/:hash/center' | '/boundary' | '/info', ...)
LegacyHash(h) == IF ~isValidCell(h) THEN "Invalid H3 hash" ELSE Passed

\* app.get('/zone/:hash/neighbors', ...)
LegacyNeighbors(h, kParam) ==
    LET k == OrOne(ParseIntParam(kParam))
    IN  IF ~isValidCell(h) THEN "Invalid H3 hash"
        ELSE IF Lt(k, Num(MinK)) \/ Gt(k, Num(MaxK)) THEN "Invalid k value"
        ELSE Passed

\* app.get('/zones/area', ...)
LegacyArea(minLat, minLng, maxLat, maxLng, resolution) ==
    IF Falsy(minLat) \/ Falsy(minLng) \/ Falsy(maxLat) \/ Falsy(maxLng)
          \/ Falsy(resolution)
    THEN "Missing parameters"
    ELSE IF \/ ~isValidCoordinate(ParseFloatParam(minLat), ParseFloatParam(minLng))
            \/ ~isValidCoordinate(ParseFloatParam(maxLat), ParseFloatParam(maxLng))
    THEN "Invalid coordinates"
    ELSE IF ~isValidResolution(ParseIntParam(resolution)) THEN "Invalid resolution"
    ELSE Passed

\* app.get('/zones/radius', ...)
LegacyRadius(lat, lng, radius, resolution) ==
    IF Falsy(lat) \/ Falsy(lng) \/ Falsy(radius) \/ Falsy(resolution)
    THEN "Missing parameters"
    ELSE IF ~isValidCoordinate(ParseFloatParam(lat), ParseFloatParam(lng))
    THEN "Invalid coordinates"
    ELSE IF ~isValidResolution(ParseIntParam(resolution)) THEN "Invalid resolution"
    ELSE Passed

\* app.post('/zones/polygon', ...): the vertices are not looked at
LegacyPolygon(polygon, resolution) ==
    IF JsonFalsy(polygon) \/ JsonFalsy(resolution) THEN "Missing parameters"
    ELSE IF ~isValidResolution(ParseIntJson(resolution)) THEN "Invalid resolution"
    ELSE IF polygon.type # "array" \/ Len(polygon.items) < 3 THEN "Invalid polygon"
    ELSE Passed

\* what the legacy server's validation makes of the current request
LegacyOutcome ==
    CASE op = "GET /zone/:lat/:lng/:resolution" ->
            LegacyZone(args.lat, args.lng, args.resolution)
      [] op \in HashRoutes \ {"GET /zone/:hash/neighbors"} -> LegacyHash(args.hash)
      [] op = "GET /zone/:hash/neighbors" -> LegacyNeighbors(args.hash, args.k)
      [] op = "GET /zones/area" ->
            LegacyArea(args.minLat, args.minLng, args.maxLat, args.maxLng, args.resolution)
      [] op = "GET /zones/radius" ->
            LegacyRadius(args.lat, args.lng, args.radius, args.resolution)
      [] op = "POST /zones/polygon" -> LegacyPolygon(args.polygon, args.resolution)

\* what the TypeScript server's validation made of it
TypeScriptOutcome == IF status = 400 THEN body.error ELSE Passed

\* C28: with API keys disabled, the TypeScript server and the legacy server
\* validate alike: every request to a shared endpoint is answered 400 by one
\* exactly when it is by the other, with the same category; validateCoordinates
\* accepts exactly the pairs isValidCoordinate accepts; the polygon endpoint
\* rejects the same bodies in both.
C28_SameValidationAsLegacy ==
    /\ op \in HttpRoutes => TypeScriptOutcome = LegacyOutcome
    /\ op = "validateCoordinates" =>
          (body.isValid <=> isValidCoordinate(args.lat, args.lng))

====
